---- MODULE Spec2Model ----
(***************************************************************************)
(* A model of the IPM tracker: the two API routes (schedule, calendar      *)
(* sync), fetchFullSchedule's sequence of spreadsheet reads, the calendar  *)
(* reconciler syncToCalendar, and the timetable cell parser.               *)
(*                                                                         *)
(* Strings are sequences of atoms (each atom a TLA+ string); "-" and ":"   *)
(* are atoms of their own, so that template strings, split() and the date  *)
(* parsers are computed on the text and not on an abstract value.          *)
(***************************************************************************)
EXTENDS Integers, Sequences, FiniteSets, TLC

\* ------------------------------------------------------------------ bounds

\* Longest session list a spreadsheet yields in the model.
MaxSessions == 2

\* Number of requests one behaviour serves.
MaxRuns == 2

\* ----------------------------------------------------------------- strings

\* NaN, the result of a failed Number()/Date.parse(); days and hours are >= 0.
NaN == -1

RECURSIVE SplitAcc(_, _, _)
SplitAcc(s, sep, cur) ==
    IF s = <<>> THEN <<cur>>
    ELSE IF Head(s) = sep THEN <<cur>> \o SplitAcc(Tail(s), sep, <<>>)
    ELSE SplitAcc(Tail(s), sep, Append(cur, Head(s)))

\* String.prototype.split(sep): the pieces between the separators.
Split(s, sep) == SplitAcc(s, sep, <<>>)

\* White-space atoms (\s) and the atoms that are not alphanumeric; every other
\* atom is made of letters and digits only.
WhiteSpace == {" ", "\n"}
Punctuation == {".", ",", "-", ":", "(", ")", "&"}

RECURSIVE TrimStart(_)
TrimStart(s) ==
    IF s # <<>> /\ Head(s) \in WhiteSpace THEN TrimStart(Tail(s)) ELSE s

RECURSIVE TrimEnd(_)
TrimEnd(s) ==
    IF s # <<>> /\ s[Len(s)] \in WhiteSpace
    THEN TrimEnd(SubSeq(s, 1, Len(s) - 1)) ELSE s

\* String.prototype.trim()
Trim(s) == TrimEnd(TrimStart(s))

RECURSIVE SplitWsAcc(_, _)
SplitWsAcc(s, cur) ==
    IF s = <<>> THEN <<cur>>
    ELSE IF Head(s) \in WhiteSpace
    THEN <<cur>> \o SplitWsAcc(TrimStart(s), <<>>)
    ELSE SplitWsAcc(Tail(s), Append(cur, Head(s)))

\* str.split(/\s+/): the pieces between the runs of white space.
SplitWs(s) == SplitWsAcc(s, <<>>)

\* Day-of-month atoms; day number d (0 = yesterday, 1 = today, ...) is written
\* DayTok[d + 1].
DayTok == <<"08", "09", "10", "11", "12">>

\* Hour atoms; hour h is written HourTok[h + 1].
HourTok == <<"00", "01", "02", "03", "04">>

\* The month table of parseSheetDate: the index of each month name.
Months ==
    "Jan" :> 0 @@ "Feb" :> 1 @@ "Mar" :> 2 @@ "Apr" :> 3 @@ "May" :> 4 @@ "Jun" :> 5
    @@ "Jul" :> 6 @@ "Aug" :> 7 @@ "Sep" :> 8 @@ "Oct" :> 9 @@ "Nov" :> 10 @@ "Dec" :> 11

\* The days of 2026 before the first of each month, by month index + 1.
DaysBeforeMonth == <<0, 31, 59, 90, 120, 151, 181, 212, 243, 273, 304, 334>>

DayOf(tok) ==
    IF \E i \in 1..Len(DayTok) : DayTok[i] = tok
    THEN (CHOOSE i \in 1..Len(DayTok) : DayTok[i] = tok) - 1
    ELSE NaN

\* new Date(2026, month, day) as a day number: the days of January count from
\* DayOf, and each later month starts DaysBeforeMonth after January does.
DayIn(month, tok) == DaysBeforeMonth[month + 1] + DayOf(tok)

\* Number(str) on one piece of a time slot: "09" -> 9, "00" -> 0, "" -> 0,
\* "00 am" -> NaN.
NumberOf(str) ==
    IF str = <<>> THEN 0
    ELSE IF Len(str) = 1 /\ \E i \in 1..Len(HourTok) : HourTok[i] = str[1]
    THEN (CHOOSE i \in 1..Len(HourTok) : HourTok[i] = str[1]) - 1
    ELSE NaN

\* The date formats of the sheet.
LongDate(d) == <<"January ", DayTok[d + 1], ", 2026">>
DmyDateIn(d, month) == <<DayTok[d + 1], "-", month, "-", "2026">>
DmyDate(d) == DmyDateIn(d, "Jan")
BadDate == <<"TBD">>

\* The slot labels: 24-hour "09:00 - 10:00", and "09:00 am - 10:00 am" as the
\* header cleanup of parseSchedule leaves it.
Slot24(h) == <<HourTok[h + 1], ":", "00", "-", HourTok[h + 2], ":", "00">>
SlotAmPm(h) == <<HourTok[h + 1], ":", "00 am", "-", HourTok[h + 2], ":", "00 am">>

\* Date.parse(str), as a day number at local midnight, or NaN.  The long format
\* is accepted; DD-MMM-YYYY is not an ECMAScript date-time string, and whether
\* it is accepted is up to the engine (acceptsDmy).
DateParse(str, acceptsDmy) ==
    IF Len(str) = 3 /\ str[1] = "January " /\ str[3] = ", 2026" /\ DayOf(str[2]) # NaN
    THEN DayOf(str[2])
    ELSE IF /\ Len(str) = 5 /\ str[2] = "-" /\ str[4] = "-"
            /\ DayOf(str[1]) # NaN /\ str[3] \in DOMAIN Months /\ str[5] = "2026"
            /\ acceptsDmy
    THEN DayIn(Months[str[3]], str[1])
    ELSE NaN

\* parseSheetDate of the dashboard: the standard Date first, then the manual
\* DD-MMM-YYYY parser.
parseSheetDate(str, acceptsDmy) ==
    IF str = <<>> THEN NaN
    ELSE IF DateParse(str, acceptsDmy) # NaN THEN DateParse(str, acceptsDmy)
    ELSE LET parts == Split(str, "-") IN
         IF /\ Len(parts) = 3
            /\ Len(parts[1]) = 1 /\ DayOf(parts[1][1]) # NaN
            /\ Len(parts[2]) = 1 /\ parts[2][1] \in DOMAIN Months
            /\ parts[3] = <<"2026">>
         THEN DayIn(Months[parts[2][1]], parts[1][1])
         ELSE NaN

\* ------------------------------------------------------ courses and sessions

\* Property names a plain object inherits (among others): courses[name] is
\* truthy for them although name is no key of the mapping.  __proto__ reads
\* the prototype itself.
ObjectPrototypeNames == {<<"constructor">>, <<"toString">>, <<"valueOf">>,
                         <<"hasOwnProperty">>, <<"__proto__">>}

\* A course mapping is the function courses[code] of a plain object.  The
\* assignment courses["__proto__"] = {...} adds no key: it makes the assigned
\* object the prototype, which courses["__proto__"] then reads.  The mapping
\* holds that object under "__proto__", and its own keys are the others.
OwnKeys(courses) == DOMAIN courses \ {<<"__proto__">>}

\* The truthy properties a mapping inherits from a course object that was
\* made its prototype: code and type always, name and credits when they are
\* not empty or zero.
PrototypeFields(courses) ==
    IF <<"__proto__">> \notin DOMAIN courses THEN {}
    ELSE LET proto == courses[<<"__proto__">>] IN
         {<<"code">>, <<"type">>}
         \cup (IF proto.name # <<>> THEN {<<"name">>} ELSE {})
         \cup (IF proto.credits # 0 THEN {<<"credits">>} ELSE {})

\* !!courses[code]: an own key, or an inherited property.
Truthy(courses, code) ==
    \/ code \in DOMAIN courses
    \/ code \in ObjectPrototypeNames
    \/ code \in PrototypeFields(courses)

\* course?.name || 'Class' with course = courses[code]: the name of an entry;
\* for an inherited function its name, which is Object for constructor and
\* the property name for the others; Object.prototype and the inherited
\* strings and numbers have no name.
CourseNameOr(courses, code) ==
    IF code \in DOMAIN courses
    THEN IF courses[code].name # <<>> THEN courses[code].name ELSE <<"Class">>
    ELSE IF code = <<"constructor">> THEN <<"Object">>
    ELSE IF code \in ObjectPrototypeNames \ {<<"__proto__">>} THEN code
    ELSE <<"Class">>

\* The profiles parseStudentProfile can give over the electives of the model.
ProfilePool == [section : {"A", "B"}, electives : {<<>>, <<<<"GT">>>>}]

\* The course mapping of the sync model: one Core course.
SyncCourses == (<<"DT">> :> [code |-> <<"DT">>, name |-> <<"Design Thinking">>,
                             credits |-> 3, type |-> <<"Core">>])

\* parseStudentProfile(email, rows, {}) for an email found in no roster row.
DefaultProfile == [section |-> "A", electives |-> <<>>]

\* A filter that also holds electives to the section of the user.
FilterKeepsElectiveBySection(session, courses, userProfile) ==
    IF session.courseCode \notin DOMAIN courses THEN TRUE
    ELSE LET course == courses[session.courseCode] IN
         IF course.type \in {<<"Elective">>, <<"Core">>}
         THEN /\ course.type = <<"Elective">>
                 => \E n \in 1..Len(userProfile.electives) :
                       userProfile.electives[n] = session.courseCode
              /\ session.section # "null" => session.section = userProfile.section
         ELSE TRUE

\* A filter that hides the sessions of courses missing from the catalog.
FilterKeepsKnownOnly(session, courses, userProfile) ==
    IF session.courseCode \notin DOMAIN courses THEN FALSE
    ELSE LET course == courses[session.courseCode] IN
         IF course.type = <<"Elective">>
         THEN \E n \in 1..Len(userProfile.electives) :
                 userProfile.electives[n] = session.courseCode
         ELSE IF course.type = <<"Core">>
         THEN IF session.section # "null"
              THEN session.section = userProfile.section
              ELSE TRUE
         ELSE TRUE

\* The predicate of filterClassesForUser's filter.
FilterKeeps(session, courses, userProfile) ==
    IF session.courseCode \notin DOMAIN courses THEN TRUE
    ELSE LET course == courses[session.courseCode] IN
         IF course.type = <<"Elective">>
         THEN \E n \in 1..Len(userProfile.electives) :
                 userProfile.electives[n] = session.courseCode
         ELSE IF course.type = <<"Core">>
         THEN IF session.section # "null"
              THEN session.section = userProfile.section
              ELSE TRUE
         ELSE TRUE

filterClassesForUser(rawSchedule, courses, userProfile) ==
    SelectSeq(rawSchedule, LAMBDA s : FilterKeeps(s, courses, userProfile))

\* ------------------------------------------------------------ parseSchedule

\* A grid cell of the Sheets API: userEnteredValue.stringValue, formattedValue
\* (<<>> when absent or empty: both are falsy) and the strikethrough flag of
\* effectiveFormat.textFormat.
Cell(stringValue, formattedValue, strikethrough) ==
    [stringValue |-> stringValue, formattedValue |-> formattedValue,
     strikethrough |-> strikethrough]

\* A cell the row does not have, or an empty one.
NoCell == Cell(<<>>, <<>>, FALSE)

\* row.values?.[col], col counted from 0.
CellAt(values, col) == IF col + 1 <= Len(values) THEN values[col + 1] ELSE NoCell

\* cell?.userEnteredValue?.stringValue || cell?.formattedValue
CellText(cell) ==
    IF cell.stringValue # <<>> THEN cell.stringValue ELSE cell.formattedValue

\* toLowerCase()/toUpperCase() on the atoms whose case the parser looks at.
LowerAtom(a) ==
    CASE a \in {"Lunch", "LUNCH"} -> "lunch"
      [] a \in {"Break", "BREAK"} -> "break"
      [] a \in {"Slot", "SLOT"} -> "slot"
      [] a \in {"Ann@X.in", "ANN@X.IN"} -> "ann@x.in"
      [] a \in {"Elective", "ELECTIVE"} -> "elective"
      [] a = "Compl." -> "compl."
      [] a = "Core" -> "core"
      [] a = "Unknown" -> "unknown"
      [] a = "Details" -> "details"
      [] a = "Course" -> "course"
      [] a = "Time" -> "time"
      [] a = "Table" -> "table"
      [] a = "Section" -> "section"
      [] a = "List" -> "list"
      [] a = "Other" -> "other"
      [] a = "A" -> "a"
      [] a = "B" -> "b"
      [] a = "E" -> "e"
      [] a = "DT" -> "dt"
      [] a = "GT" -> "gt"
      [] a = "HR" -> "hr"
      [] a = "LSF" -> "lsf"
      [] a = "III" -> "iii"
      [] a \in {"Game Theory", "GAME THEORY"} -> "game theory"
      [] a = "Design Thinking" -> "design thinking"
      [] a = "Human Resources" -> "human resources"
      [] a = "Law" -> "law"
      [] a = "Ethics" -> "ethics"
      [] OTHER -> a

UpperAtom(a) ==
    CASE a = "a" -> "A"
      [] a = "b" -> "B"
      [] OTHER -> a

ToUpperCase(s) == [i \in 1..Len(s) |-> UpperAtom(s[i])]

\* text.toLowerCase().includes(word), for word "lunch" or "break": these two
\* words occur in a text of the model only as whole atoms.
Includes(text, word) == \E i \in 1..Len(text) : LowerAtom(text[i]) = word

\* courseCode.replace(/[^a-zA-Z0-9]/g, ''): the atoms without a letter or digit
\* go, and an atom that holds other characters among its letters and digits
\* keeps the letters and digits ("__proto__" becomes "proto").
StripNonAlnum(s) ==
    LET kept == SelectSeq(s, LAMBDA a : a \notin Punctuation \cup WhiteSpace
                                          \cup {"!", "'", "@", "_"})
        Alnum(a) ==
             CASE a = ", 2026" -> "2026"
               [] a = "00 AM" -> "00AM"
               [] a = "00 PM" -> "00PM"
               [] a = "00 am" -> "00am"
               [] a = "00 noon" -> "00noon"
               [] a = "00 pm" -> "00pm"
               [] a = "A1:Z1000" -> "A1Z1000"
               [] a = "ANN@X.IN" -> "ANNXIN"
               [] a = "Ann@X.in" -> "AnnXin"
               [] a = "ann@x.in" -> "annxin"
               [] a = "bob@x.in" -> "bobxin"
               [] a = "Compl." -> "Compl"
               [] a = "compl." -> "compl"
               [] a = "Design Thinking" -> "DesignThinking"
               [] a = "design thinking" -> "designthinking"
               [] a = "GAME THEORY" -> "GAMETHEORY"
               [] a = "Game Theory" -> "GameTheory"
               [] a = "game theory" -> "gametheory"
               [] a = "Game Theory II" -> "GameTheoryII"
               [] a = "Human Resources" -> "HumanResources"
               [] a = "human resources" -> "humanresources"
               [] a = "January " -> "January"
               [] a = "No Code" -> "NoCode"
               [] a = "__proto__" -> "proto"
               [] OTHER -> a
    IN [i \in 1..Len(kept) |-> Alnum(kept[i])]

\* Atoms made of digits.
DigitAtoms == {"00", "01", "02", "03", "04", "1", "2", "3"}

\* Minute atoms followed by a meridiem: \d{2}\s*(?:am|pm|noon|AM|PM)
MeridiemAtoms == {"00 am", "00 pm", "00 noon", "00 AM", "00 PM"}

\* `${i - 2}` for the slot columns of the model.
DigitTok == <<"1", "2", "3">>

\* cleanSlot.match(/(\d{1,2}:\d{2}\s*(?:am|pm|noon|AM|PM)[\s\S]*?)(?:\r\n|\r|\n|$)/)
TimeMatch(text) ==
    \E i \in 3..Len(text) :
        text[i] \in MeridiemAtoms /\ text[i - 1] = ":" /\ text[i - 2] \in DigitAtoms

RECURSIVE SkipWhile(_, _)
SkipWhile(s, atoms) ==
    IF s # <<>> /\ Head(s) \in atoms THEN SkipWhile(Tail(s), atoms) ELSE s

\* cleanSlot.replace(/Slot\s*\d+\s*/i, ''): the first match is removed.
RECURSIVE RemoveSlotLabel(_)
RemoveSlotLabel(s) ==
    IF s = <<>> THEN <<>>
    ELSE LET rest == SkipWhile(Tail(s), WhiteSpace) IN
         IF LowerAtom(Head(s)) = "slot" /\ rest # <<>> /\ Head(rest) \in DigitAtoms
         THEN SkipWhile(SkipWhile(rest, DigitAtoms), WhiteSpace)
         ELSE <<Head(s)>> \o RemoveSlotLabel(Tail(s))

\* cleanSlot.replace(/\n/g, ' ')
NewlinesToSpaces(s) == [i \in 1..Len(s) |-> IF s[i] = "\n" THEN " " ELSE s[i]]

\* The slot name of header column i (lines 51-61), n = i - 2.
CleanSlot(cell, n) ==
    LET val == CellText(cell)
        cleanSlot == IF val # <<>> THEN val ELSE <<"Slot", " ", DigitTok[n]>>
    IN IF TimeMatch(cleanSlot)
       THEN Trim(NewlinesToSpaces(Trim(RemoveSlotLabel(cleanSlot))))
       ELSE cleanSlot

\* The loop over the header columns from index 3 on (lines 47-62).
HeaderSlots(headerRow) ==
    [n \in 1..(Len(headerRow) - 3) |-> CleanSlot(CellAt(headerRow, n + 2), n)]

\* cell.effectiveFormat?.textFormat?.strikethrough === true
IsCancelledOf(cell) == cell.strikethrough

\* The section of a cell's session (lines 115-123), with the row's section
\* taking precedence over the cell's.
SectionOfRowFirst(parts, rowSection) ==
    LET sec == IF Len(parts) >= 3 THEN ToUpperCase(parts[3]) ELSE <<>> IN
    IF rowSection \in {<<"A">>, <<"B">>} THEN rowSection[1]
    ELSE IF sec \in {<<"A">>, <<"B">>} THEN sec[1]
    ELSE "null"

\* The section of a cell's session (lines 115-123): the third token when it is
\* A or B, else the row's section when it is A or B, else null.
SectionOf(parts, rowSection) ==
    LET sec == IF Len(parts) >= 3 THEN ToUpperCase(parts[3]) ELSE <<>> IN
    IF sec \in {<<"A">>, <<"B">>} THEN sec[1]
    ELSE IF rowSection \in {<<"A">>, <<"B">>} THEN rowSection[1]
    ELSE "null"

\* The callback of timeSlots.forEach for one cell (lines 87-136): the sessions
\* it pushes, none or one.
ParseCell(cell, slotName, date, rowSection, courses) ==
    LET text == CellText(cell) IN
    IF \/ text = <<>>
       \/ Trim(text) = <<>>
       \/ Includes(text, "lunch")
       \/ Includes(text, "break")
    THEN <<>>
    ELSE LET parts == SplitWs(Trim(text))
             courseCode == IF Truthy(courses, parts[1]) THEN parts[1]
                           ELSE StripNonAlnum(parts[1])
             sessionNumber == IF Len(parts) >= 2 THEN parts[2] ELSE <<>>
             section == SectionOf(parts, rowSection)
         IN IF ~Truthy(courses, courseCode) THEN <<>>
            ELSE <<[date |-> date, timeSlot |-> slotName, courseCode |-> courseCode,
                    sessionNumber |-> sessionNumber, section |-> section,
                    raw |-> text, isCancelled |-> IsCancelledOf(cell)]>>

\* timeSlots.forEach over the cells of one row, from slot i on.
RECURSIVE RowSessions(_, _, _, _, _, _)
RowSessions(values, slots, i, date, rowSection, courses) ==
    IF i > Len(slots) THEN <<>>
    ELSE ParseCell(CellAt(values, i + 2), slots[i], date, rowSection, courses)
         \o RowSessions(values, slots, i + 1, date, rowSection, courses)

\* The slots of one row whose cell pushes a session, from slot i on (whether a
\* cell pushes does not depend on the date or on the row section).
RECURSIVE RowSlots(_, _, _, _)
RowSlots(values, slots, i, courses) ==
    IF i > Len(slots) THEN <<>>
    ELSE (IF ParseCell(CellAt(values, i + 2), slots[i], <<>>, <<>>, courses) # <<>>
          THEN <<i>> ELSE <<>>)
         \o RowSlots(values, slots, i + 1, courses)

\* row.values?.some((c, i) => i > 0 && (stringValue || formattedValue))
HasData(values) == \E k \in 2..Len(values) : CellText(values[k]) # <<>>

\* The callback of rows.slice(2).forEach for one row (lines 68-137): the new
\* lastDate and the sessions pushed.
ForEachRowResult(values, last, slots, courses) ==
    LET date == CellText(CellAt(values, 0))
        rowSection == Trim(CellText(CellAt(values, 2)))
    IN IF ~HasData(values) THEN [lastDate |-> last, pushed |-> <<>>]
       ELSE IF date # <<>>
       THEN [lastDate |-> date,
             pushed |-> RowSessions(values, slots, 1, date, rowSection, courses)]
       ELSE IF last # <<>>
       THEN [lastDate |-> last,
             pushed |-> RowSessions(values, slots, 1, last, rowSection, courses)]
       ELSE [lastDate |-> last, pushed |-> <<>>]

\* parseSchedule on a grid of a header and the given data rows.
RECURSIVE parseScheduleFrom(_, _, _, _)
parseScheduleFrom(dataRows, last, slots, courses) ==
    IF dataRows = <<>> THEN <<>>
    ELSE LET r == ForEachRowResult(Head(dataRows), last, slots, courses) IN
         r.pushed \o parseScheduleFrom(Tail(dataRows), r.lastDate, slots, courses)

parseSchedule(headerRow, dataRows, courses) ==
    IF Len(dataRows) < 1 THEN <<>>
    ELSE parseScheduleFrom(dataRows, <<>>, HeaderSlots(headerRow), courses)

\* ------------------------------------------- parseCourses, parseStudentProfile

\* row[i] of a values row (string[]), <<>> when the row is too short.
Col(row, i) == IF i + 1 <= Len(row) THEN row[i + 1] ELSE <<>>

\* replace(/\s+/g, ' '): every run of white space becomes one space.
RECURSIVE CollapseSpaces(_)
CollapseSpaces(s) ==
    IF s = <<>> THEN <<>>
    ELSE IF Head(s) \in WhiteSpace THEN <<" ">> \o CollapseSpaces(TrimStart(s))
    ELSE <<Head(s)>> \o CollapseSpaces(Tail(s))

\* row[4]?.replace(/\n/g, ' ').replace(/\s+/g, ' ').trim()
NormalizeType(str) == Trim(CollapseSpaces(NewlinesToSpaces(str)))

\* Number(row[2]) || 0
CreditsOf(str) ==
    LET s == Trim(str) IN
    IF Len(s) = 1 /\ \E n \in 1..Len(DigitTok) : DigitTok[n] = s[1]
    THEN CHOOSE n \in 1..Len(DigitTok) : DigitTok[n] = s[1]
    ELSE IF NumberOf(s) # NaN THEN NumberOf(s)
    ELSE 0

\* The type of the course of a catalog row (line 26): the normalised text of
\* column 4, or Unknown when there is none.
CourseType(row) ==
    IF NormalizeType(Col(row, 4)) # <<>> THEN NormalizeType(Col(row, 4))
    ELSE <<"Unknown">>

\* The callback of rows.slice(1).forEach (lines 17-28): the mapping after the
\* row.  courses is a plain object, so the assignment courses["__proto__"] =
\* {...} replaces its prototype and adds no key (OwnKeys).
ParseCoursesRow(courses, row) ==
    LET code == Trim(Col(row, 3)) IN
    IF code = <<>> THEN courses
    ELSE [c \in DOMAIN courses \cup {code} |->
            IF c = code
            THEN [code |-> code, name |-> Trim(Col(row, 1)),
                  credits |-> CreditsOf(Col(row, 2)), type |-> CourseType(row)]
            ELSE courses[c]]

RECURSIVE parseCoursesFrom(_, _)
parseCoursesFrom(dataRows, courses) ==
    IF dataRows = <<>> THEN courses
    ELSE parseCoursesFrom(Tail(dataRows), ParseCoursesRow(courses, Head(dataRows)))

\* parseCourses(rows): row 0 is the header.
parseCourses(catalogRows) ==
    IF catalogRows = <<>> THEN <<>>
    ELSE parseCoursesFrom(Tail(catalogRows), <<>>)

ToLowerCase(s) == [i \in 1..Len(s) |-> LowerAtom(s[i])]

\* str?.trim().toLowerCase()
EmailKey(str) == ToLowerCase(Trim(str))

\* row[3]?.trim().toLowerCase() === target: a row without column 3 gives
\* undefined, which equals no target.
RowHasEmail(row, target) == Len(row) >= 4 /\ EmailKey(row[4]) = target

\* new Set(rows.map(r => r[3]?.trim().toLowerCase())).has(target)
HasEmail(rosterOf, target) ==
    \E k \in 1..Len(rosterOf) : RowHasEmail(rosterOf[k], target)

\* The section of a profile taken from the last matching roster row.
SectionFromLastRow(studentRows, target) ==
    LET found == {k \in 1..Len(studentRows) : RowHasEmail(studentRows[k], target)}
    IN IF found = {} THEN "A"
       ELSE LET k == CHOOSE k \in found : \A k2 \in found : k2 <= k
                secVal == ToUpperCase(Trim(Col(studentRows[k], 9)))
            IN IF secVal \in {<<"A">>, <<"B">>} THEN secVal[1] ELSE "A"

\* The section of the profile (lines 156-166): column 9 of the first row with
\* the email, when it is A or B; else A.
SectionFromRoster(studentRows, target) ==
    LET found == {k \in 1..Len(studentRows) : RowHasEmail(studentRows[k], target)}
    IN IF found = {} THEN "A"
       ELSE LET k == CHOOSE k \in found : \A k2 \in found : k <= k2
                secVal == ToUpperCase(Trim(Col(studentRows[k], 9)))
            IN IF secVal \in {<<"A">>, <<"B">>} THEN secVal[1] ELSE "A"

\* An elective loop that enrols the user in every elective with a roster.
RECURSIVE ElectivesOfAnyRoster(_, _)
ElectivesOfAnyRoster(entries, target) ==
    IF entries = <<>> THEN <<>>
    ELSE (IF Head(entries).rows # <<>> THEN <<Head(entries).code>> ELSE <<>>)
         \o ElectivesOfAnyRoster(Tail(entries), target)

\* Object.entries(electiveRowsMap).forEach (lines 173-183): the codes pushed, in
\* the order of the entries.
RECURSIVE ElectivesOf(_, _)
ElectivesOf(entries, target) ==
    IF entries = <<>> THEN <<>>
    ELSE (IF HasEmail(Head(entries).rows, target) THEN <<Head(entries).code>>
          ELSE <<>>)
         \o ElectivesOf(Tail(entries), target)

\* parseStudentProfile(email, studentRows, electiveRowsMap); the map is given
\* as its entries, in insertion order.
parseStudentProfile(email, studentRows, electiveRowsMap) ==
    [email |-> email,
     section |-> SectionFromRoster(studentRows, EmailKey(email)),
     electives |-> ElectivesOf(electiveRowsMap, EmailKey(email))]

\* The profile of the schedule route (GET, line 29):
\* parseStudentProfile(email, data.studentRows, data.electiveRowsMap).
ScheduleRouteProfile(email, studentRows, electiveRowsMap) ==
    parseStudentProfile(email, studentRows, electiveRowsMap)

\* The profile of the sync route (POST, line 25):
\* parseStudentProfile(email, data.studentMaster, {}), on the same roster rows:
\* studentMaster is the combined section rosters of the fetchFullSchedule the
\* sync route is written for.
SyncRouteProfile(email, studentRows) == parseStudentProfile(email, studentRows, <<>>)

\* ---------------------------------------------------------- fetchFullSchedule

\* str.includes(sub): sub stands in str, atom after atom.
Contains(str, sub) ==
    \E i \in 1..(Len(str) - Len(sub) + 1) : SubSeq(str, i, i + Len(sub) - 1) = sub

\* Atoms of one character.
SingleCharAtoms == {"E", "e", "A", "a", "B", "b", "1", "2", "3", "-", " ", ".", "'", "!"}

\* str.length > 1
LongerThanOne(str) == Len(str) > 1 \/ (Len(str) = 1 /\ str[1] \notin SingleCharAtoms)

\* sheetList.find(test), given the positions of the sheets that pass the test:
\* the first of them, 0 for undefined.  A sheet is given by its title.
FirstSheet(passing) ==
    IF passing = {} THEN 0
    ELSE CHOOSE i \in passing : \A j \in passing : i <= j

\* The positions of the sheets whose lower-cased title includes every one of
\* the words.
SheetsIncluding(sheetTitles, words) ==
    {i \in 1..Len(sheetTitles) :
        \A w \in words : Contains(ToLowerCase(sheetTitles[i]), w)}

\* The title of the first sheet whose lower-cased title includes the word, <<>>
\* for undefined.
SheetNamed(sheetTitles, word) ==
    LET i == FirstSheet(SheetsIncluding(sheetTitles, {word}))
    IN IF i # 0 THEN sheetTitles[i] ELSE <<>>

\* Lines 212-213: the catalog sheet.
CourseSheetOf(sheetTitles) ==
    IF SheetNamed(sheetTitles, <<"details">>) # <<>>
    THEN SheetNamed(sheetTitles, <<"details">>)
    ELSE IF Len(sheetTitles) >= 1 THEN sheetTitles[1]
    ELSE <<"Sheet1">>

\* Lines 215-216: the timetable sheet.
TimeTableSheetOf(sheetTitles) ==
    IF SheetNamed(sheetTitles, <<"time", " ", "table">>) # <<>>
    THEN SheetNamed(sheetTitles, <<"time", " ", "table">>)
    ELSE IF Len(sheetTitles) >= 2 THEN sheetTitles[2]
    ELSE <<"Sheet2">>

\* Object.values(courses) goes through the keys in the order they were first
\* assigned (no code of the model is a whole number): the codes of the data
\* rows, each once.
RECURSIVE KeysOfRows(_, _)
KeysOfRows(dataRows, seen) ==
    IF dataRows = <<>> THEN seen
    ELSE LET code == Trim(Col(Head(dataRows), 3)) IN
         KeysOfRows(Tail(dataRows),
                    IF code = <<>> \/ code = <<"__proto__">>
                       \/ \E n \in 1..Len(seen) : seen[n] = code
                    THEN seen ELSE Append(seen, code))

KeysInOrder(catalogRows) ==
    IF catalogRows = <<>> THEN <<>> ELSE KeysOfRows(Tail(catalogRows), <<>>)

\* Line 235: the type marks the course as an elective one.
IsElectiveType(type) ==
    \/ Contains(ToLowerCase(type), <<"elective">>)
    \/ Contains(ToLowerCase(type), <<"compl.">>)

\* Discovery with the code-and-list strategy tried before the name.
SheetForCodeFirst(course, sheetTitles) ==
    LET byName == FirstSheet(SheetsIncluding(sheetTitles, {ToLowerCase(course.name)}))
        byCode == FirstSheet(SheetsIncluding(sheetTitles,
                                             {ToLowerCase(course.code), <<"list">>}))
        shortCode == ToLowerCase(Split(course.code, "-")[1])
        byPrefix == IF LongerThanOne(shortCode)
                    THEN FirstSheet(SheetsIncluding(sheetTitles, {shortCode, <<"list">>}))
                    ELSE 0
    IN IF byCode # 0 THEN byCode ELSE IF byName # 0 THEN byName ELSE byPrefix

\* Lines 236-258: the position of the sheet matched to an elective course, 0
\* for none.
SheetFor(course, sheetTitles) ==
    LET byName == FirstSheet(SheetsIncluding(sheetTitles, {ToLowerCase(course.name)}))
        byCode == FirstSheet(SheetsIncluding(sheetTitles,
                                             {ToLowerCase(course.code), <<"list">>}))
        shortCode == ToLowerCase(Split(course.code, "-")[1])
        byPrefix == IF LongerThanOne(shortCode)
                    THEN FirstSheet(SheetsIncluding(sheetTitles, {shortCode, <<"list">>}))
                    ELSE 0
    IN IF byName # 0 THEN byName ELSE IF byCode # 0 THEN byCode ELSE byPrefix

\* `'${title}'`
Quoted(title) == <<"'">> \o title \o <<"'">>

\* Nothing discovered yet (lines 228-230), before the first log line.
NoDiscovery == [ranges |-> <<>>, titles |-> <<>>, log |-> <<>>]

\* The callback of Object.values(courses).forEach (lines 233-270) for one
\* course.  titles is electiveCodeToSheetTitle as its entries, in the order of
\* assignment.
DiscoverCourse(found, course, sheetTitles) ==
    IF ~IsElectiveType(course.type) THEN found
    ELSE LET match == SheetFor(course, sheetTitles) IN
         IF match # 0
         THEN [ranges |-> Append(found.ranges, Quoted(sheetTitles[match])),
               titles |-> Append(found.titles,
                                 [code |-> course.code, title |-> sheetTitles[match]]),
               log |-> Append(found.log, [line |-> "found", code |-> course.code])]
         ELSE [found EXCEPT !.log = Append(@, [line |-> "none", code |-> course.code])]

RECURSIVE DiscoverFrom(_, _, _, _)
DiscoverFrom(codes, courses, sheetTitles, found) ==
    IF codes = <<>> THEN found
    ELSE DiscoverFrom(Tail(codes), courses, sheetTitles,
                      DiscoverCourse(found, courses[Head(codes)], sheetTitles))

\* Step 3 of fetchFullSchedule (lines 227-273) on the catalog rows read.
Discover(catalogRows, sheetTitles) ==
    DiscoverFrom(KeysInOrder(catalogRows), parseCourses(catalogRows), sheetTitles,
                 NoDiscovery)

\* Lines 279-283: the ranges of the batch read.
RangesToFetch(sectionA, sectionB, electiveRanges) ==
    (IF sectionA # <<>> THEN <<Quoted(sectionA)>> ELSE <<>>)
    \o (IF sectionB # <<>> THEN <<Quoted(sectionB)>> ELSE <<>>)
    \o electiveRanges

\* The rows of a sheet, told apart by the title they belong to.
SheetRows(title) == <<<<title>>>>

\* The value range the service returns for a requested range: the range in A1
\* notation, which names the sheet, and the rows of that sheet.
ValueRange(requested) ==
    [range |-> requested \o <<"!", "A1:Z1000">>,
     values |-> SheetRows(SubSeq(requested, 2, Len(requested) - 1))]

\* Nothing mapped back yet (lines 287-288).
NoRosters == [students |-> <<>>, electives |-> <<>>]

\* The callback of returnedRanges.forEach (lines 299-326) for one value range:
\* section A, else section B, else the first entry of
\* electiveCodeToSheetTitle whose title the range name includes.
MapBack(maps, rangeObj, sectionA, sectionB, titles) ==
    IF sectionA # <<>> /\ Contains(rangeObj.range, sectionA)
    THEN [maps EXCEPT !.students = [k \in DOMAIN @ \cup {"A"} |->
                                       IF k = "A" THEN rangeObj.values ELSE @[k]]]
    ELSE IF sectionB # <<>> /\ Contains(rangeObj.range, sectionB)
    THEN [maps EXCEPT !.students = [k \in DOMAIN @ \cup {"B"} |->
                                       IF k = "B" THEN rangeObj.values ELSE @[k]]]
    ELSE LET hits == {n \in 1..Len(titles) : Contains(rangeObj.range, titles[n].title)}
         IN IF hits = {} THEN maps
            ELSE LET n == CHOOSE n \in hits : \A m \in hits : n <= m
                 IN [maps EXCEPT !.electives =
                        [c \in DOMAIN @ \cup {titles[n].code} |->
                            IF c = titles[n].code THEN rangeObj.values ELSE @[c]]]

RECURSIVE MapBackFrom(_, _, _, _, _)
MapBackFrom(returned, maps, sectionA, sectionB, titles) ==
    IF returned = <<>> THEN maps
    ELSE MapBackFrom(Tail(returned),
                     MapBack(maps, Head(returned), sectionA, sectionB, titles),
                     sectionA, sectionB, titles)

\* Lines 290-327: the maps after a batch read that returns one value range per
\* requested range, in the order requested.
ReadRosters(ranges, sectionA, sectionB, titles) ==
    MapBackFrom([i \in 1..Len(ranges) |-> ValueRange(ranges[i])], NoRosters,
                sectionA, sectionB, titles)

\* ------------------------------------------------------------ calculateStats

\* Leaves allowed, rounded up.
AllowedLeavesCeil(total) == (total * 20 + 99) \div 100

\* Math.floor(total * 0.20)
AllowedLeaves(total) == (total * 20) \div 100

\* `${code}-${session.sessionNumber}`
AttendanceKey(session) == session.courseCode \o <<"-">> \o session.sessionNumber

\* attendance[key], "none" for undefined
StatusOf(attendance, key) ==
    IF key \in DOMAIN attendance THEN attendance[key] ELSE "none"

\* The callback of sessions.forEach (lines 41-73).  !stats[code] is false for a
\* code that names an inherited property, so no entry is made for it and the
\* increments go to the inherited object.
CountSession(statsSoFar, session, attendance) ==
    LET code == session.courseCode
        old == IF code \in DOMAIN statsSoFar THEN statsSoFar[code]
               ELSE [total |-> 0, attended |-> 0, leaves |-> 0, allowedLeaves |-> 0]
        status == StatusOf(attendance, AttendanceKey(session))
    IN IF code \notin DOMAIN statsSoFar /\ code \in ObjectPrototypeNames
       THEN statsSoFar
       ELSE [c \in DOMAIN statsSoFar \cup {code} |->
               IF c = code
               THEN [total |-> old.total + 1,
                     attended |-> old.attended + (IF status = "Present" THEN 1 ELSE 0),
                     leaves |-> old.leaves + (IF status = "Absent" THEN 1 ELSE 0),
                     allowedLeaves |-> old.allowedLeaves]
               ELSE statsSoFar[c]]

\* Object.keys(stats).forEach (lines 76-78)
WithAllowedLeaves(statsSoFar) ==
    [c \in DOMAIN statsSoFar |->
        [statsSoFar[c] EXCEPT !.allowedLeaves = AllowedLeaves(statsSoFar[c].total)]]

RECURSIVE CountAll(_, _, _)
CountAll(list, attendance, statsSoFar) ==
    IF list = <<>> THEN statsSoFar
    ELSE CountAll(Tail(list), attendance, CountSession(statsSoFar, Head(list), attendance))

calculateStats(list, attendance) == WithAllowedLeaves(CountAll(list, attendance, <<>>))

\* ----------------------------------------------------------- syncToCalendar

\* new Date() when the sync starts: today (day 1), one o'clock.
Now == [day |-> 1, h |-> 1, m |-> 0]

TimeVal(t) == (t.day * 24 + t.h) * 60 + t.m

\* `${session.date}-${session.timeSlot}-${session.courseCode}`
Signature(session) ==
    session.date \o <<"-">> \o session.timeSlot \o <<"-">> \o session.courseCode

\* The filter of futureClasses: new Date(Date.parse(c.date)) >= midnight of today.
\* A comparison with an invalid date is false.
IsFuture(c, now, acceptsDmy) ==
    LET d == DateParse(c.date, acceptsDmy) IN d # NaN /\ d >= now.day

\* .map(s => s.trim()) on the pieces of the slot
TrimEach(parts) == [i \in 1..Len(parts) |-> Trim(parts[i])]

\* [h, m] = str.split(':').map(Number); a missing minute is undefined.
HourMinute(str) ==
    LET p == Split(str, ":") IN
    [h |-> NumberOf(p[1]), m |-> IF Len(p) >= 2 THEN NumberOf(p[2]) ELSE NaN]

\* Whether the event body of a live session can be built (lines 84-101): the
\* slot must split on '-' into a start and an end (else endTimeStr is undefined
\* and its split throws), and both must give numeric hours and minutes (else
\* setHours makes the date invalid and toISOString throws).
BodyOk(session) ==
    LET parts == TrimEach(Split(session.timeSlot, "-")) IN
    /\ Len(parts) >= 2
    /\ HourMinute(parts[1]).h # NaN /\ HourMinute(parts[1]).m # NaN
    /\ HourMinute(parts[2]).h # NaN /\ HourMinute(parts[2]).m # NaN

\* The event body of a live session (requestBody of update and insert).
EventBody(session, courses, acceptsDmy) ==
    LET parts == TrimEach(Split(session.timeSlot, "-"))
        day   == DateParse(session.date, acceptsDmy)
        s     == HourMinute(parts[1])
        e     == HourMinute(parts[2])
    IN [summary |-> <<session.courseCode, CourseNameOr(courses, session.courseCode)>>,
        description |-> <<session.sessionNumber,
                          IF session.section # "null" THEN session.section
                          ELSE "Common">>,
        start |-> [day |-> day, h |-> s.h, m |-> s.m],
        end   |-> [day |-> day, h |-> e.h, m |-> e.m],
        signature |-> Signature(session)]

\* events.list with timeMin and privateExtendedProperty source=ipm-tracker:
\* the tagged events that end after timeMin (remote holds the tagged events).
ListedEvents(events, timeMin) ==
    {e \in events : TimeVal(e.body.end) > TimeVal(timeMin)}

\* What the loop does with one session, given existingMap.get(signature)
\* (0: no entry): lines 69-75 for a cancelled one, 110-123 for a live one.
SessionOpIgnoringCancel(session, existingEventId) ==
    IF existingEventId # 0 THEN "update" ELSE "insert"

SessionOpDeleteUnchecked(session, existingEventId) ==
    IF session.isCancelled THEN "delete"
    ELSE IF existingEventId # 0 THEN "update" ELSE "insert"

SessionOp(session, existingEventId) ==
    IF session.isCancelled
    THEN IF existingEventId # 0 THEN "delete" ELSE "skip"
    ELSE IF existingEventId # 0 THEN "update" ELSE "insert"

\* An awaited remote call that rejects throws out of the function that awaits
\* it: the caller's catch block is next.  Otherwise execution goes on.
AfterAwaitSwallowing(ok, next) == next

AfterAwait(ok, next) == IF ok THEN next ELSE "catch"

\* The remote calendar after a successful mutation.
ApplyMutation(events, op, id, body) ==
    CASE op = "insert" -> events \cup {[id |-> id, body |-> body]}
      [] op = "update" -> {IF e.id = id THEN [id |-> id, body |-> body] ELSE e
                           : e \in events}
      [] op = "delete" -> {e \in events : e.id # id}
      [] OTHER -> events

\* ------------------------------------------------------------------- routes

\* The guard of both routes (GET /api/schedule, POST /api/calendar/sync):
\* !session || !session.accessToken || !session.user?.email.
AuthOkWithoutEmail(session) == session.present /\ session.accessToken

AuthOk(session) == session.present /\ session.accessToken /\ session.email

\* What getServerSession can return.
SessionInputs ==
    {[present |-> FALSE, accessToken |-> FALSE, email |-> FALSE],
     [present |-> TRUE,  accessToken |-> FALSE, email |-> TRUE],
     [present |-> TRUE,  accessToken |-> TRUE,  email |-> FALSE],
     [present |-> TRUE,  accessToken |-> TRUE,  email |-> TRUE]}

NoResponse == [status |-> 0, body |-> "none", count |-> NaN]
ErrorResponse(status) == [status |-> status, body |-> "error", count |-> NaN]

\* The catch block of both routes: { error: error.message }, status 500.
CatchResponseWithData == [status |-> 200, body |-> "data", count |-> NaN]

CatchResponse == ErrorResponse(500)

\* --------------------------------------------------------------- the inputs

MkSession(date, slot, cancelled) ==
    [date |-> date, timeSlot |-> slot, courseCode |-> <<"DT">>,
     sessionNumber |-> <<"1">>, section |-> "null", raw |-> <<"DT", " ", "1">>,
     isCancelled |-> cancelled]

\* The sessions a timetable can hold: one of yesterday; today's, in a slot that
\* is over at Now and in one that is not, live and cancelled; tomorrow's, with
\* the date as DD-MMM-YYYY, live and cancelled; one under a slot label with
\* am/pm; and one of next month whose cell named an inherited property of
\* the course mapping (parseSchedule and the filter let it through).
SessionPool ==
    {MkSession(LongDate(0), Slot24(1), FALSE)}
    \cup {MkSession(LongDate(1), s, c) : s \in {Slot24(0), Slot24(1)}, c \in BOOLEAN}
    \cup {MkSession(DmyDate(2), Slot24(1), c) : c \in BOOLEAN}
    \cup {MkSession(LongDate(1), SlotAmPm(1), FALSE)}
    \cup {[MkSession(DmyDateIn(1, "Feb"), Slot24(1), FALSE)
             EXCEPT !.courseCode = <<"constructor">>,
                    !.raw = <<"constructor", " ", "1">>]}

SheetLists == UNION {[1..n -> SessionPool] : n \in 0..MaxSessions}

\* An event an earlier sync left in the calendar.
EarlierEvent ==
    [id |-> 1,
     body |-> EventBody(MkSession(LongDate(1), Slot24(1), FALSE), SyncCourses, TRUE)]

\* ---------------------------------------------------------------- the state

VARIABLES
    acceptsDmy,     \* whether the engine's Date.parse accepts DD-MMM-YYYY
    sheet,          \* the schedule the spreadsheet yields (parseSchedule's output)
    configured,     \* whether process.env.SPREADSHEET_ID is set
    remote,         \* the tagged events of the remote calendar
    nextId,         \* the id the calendar gives the next inserted event
    pc,             \* where the request in progress is
    req,            \* the request in progress: its route and its session
    calls,          \* the remote calls of the request in progress, in order
    response,       \* the response of the request in progress
    myClasses,      \* POST: filterClassesForUser's result
    existingMap,    \* syncToCalendar: signature -> event id
    futureClasses,  \* syncToCalendar: the sessions of today and later
    idx,            \* syncToCalendar: index of the session the loop is at
    remoteAtStart,  \* the remote calendar when syncToCalendar was entered
    prev,           \* summary of the request before this one
    runs,           \* requests received so far
    pCourses,       \* parseSchedule: the course mapping it validates against
    headerRow,      \* parseSchedule: the header row of the grid
    timeSlots,      \* parseSchedule: the slot names read from the header row
    rows,           \* parseSchedule: the data rows gone through so far
    lastDate,       \* parseSchedule: the last date seen (<<>>: none yet)
    sessions,       \* parseSchedule: the sessions pushed so far
    origins,        \* for each pushed session, the data row and slot it came from
    step,           \* data functions: which one has run
    catalog,        \* parseCourses: the rows gone through so far, header first
    catCourses,     \* parseCourses: the mapping built so far
    targetEmail,    \* parseStudentProfile: the email looked for, as given
    rosterRows,     \* parseStudentProfile: studentRows
    electiveRosters,\* parseStudentProfile: electiveRowsMap
    builtProfile,   \* parseStudentProfile: the profile returned
    schedule,       \* filterClassesForUser: rawSchedule
    viewer,         \* filterClassesForUser: userProfile
    filtered,       \* filterClassesForUser: the list returned
    counted,        \* calculateStats: the sessions gone through so far
    marks,          \* calculateStats: the attendance map
    stats,          \* calculateStats: the statistics, per course code
    sheetList,      \* fetchFullSchedule: the titles of the sheets, in workbook order
    courseSheet,    \* fetchFullSchedule: the title of the catalog sheet
    timeTableSheet, \* fetchFullSchedule: the title of the timetable sheet
    fetchRows,      \* fetchFullSchedule: the rows read from the catalog sheet
    fetchCourses,   \* fetchFullSchedule: courses
    electiveSheetRanges,      \* fetchFullSchedule: the ranges of the matched sheets
    electiveCodeToSheetTitle, \* fetchFullSchedule: its entries, in order
    debugLog,       \* fetchFullSchedule: the log lines after the first
    sectionASheet,  \* fetchFullSchedule: title of the section A sheet, <<>> if none
    sectionBSheet,  \* fetchFullSchedule: title of the section B sheet, <<>> if none
    studentDataMap, \* fetchFullSchedule: rows of the section sheets, by section
    electiveRows,   \* fetchFullSchedule: electiveRowsMap
    raceClasses,    \* two requests at once: the classes both routes hand over
    raceRemote,     \* two requests at once: the tagged events of the calendar
    raceNextId,     \* two requests at once: the id the service gives next
    racePc,         \* two requests at once: where each request is
    raceMap,        \* two requests at once: existingMap of each request
    raceFuture,     \* two requests at once: futureClasses of each request
    raceIdx         \* two requests at once: the loop position of each request

syncVars == <<acceptsDmy, sheet, configured, remote, nextId, pc, req, calls, response,
              myClasses, existingMap, futureClasses, idx, remoteAtStart, prev, runs>>

parseVars == <<pCourses, headerRow, timeSlots, rows, lastDate, sessions, origins>>

fetchVars == <<sheetList, courseSheet, timeTableSheet, fetchRows, fetchCourses,
               electiveSheetRanges, electiveCodeToSheetTitle, debugLog, sectionASheet,
               sectionBSheet, studentDataMap, electiveRows>>

raceVars == <<raceClasses, raceRemote, raceNextId, racePc, raceMap, raceFuture, raceIdx>>

baseDataVars == <<step, catalog, catCourses, targetEmail, rosterRows, electiveRosters,
                  builtProfile, schedule, viewer, filtered, counted, marks, stats>>

dataVars == <<baseDataVars, fetchVars, raceVars>>

vars == <<syncVars, parseVars, dataVars>>

\* No data function has run.
BaseDataIdle ==
    /\ step = "start"
    /\ catalog = <<>>
    /\ catCourses = <<>>
    /\ targetEmail = <<>>
    /\ rosterRows = <<>>
    /\ electiveRosters = <<>>
    /\ builtProfile = [section |-> "A", electives |-> <<>>]
    /\ schedule = <<>>
    /\ viewer = [section |-> "A", electives |-> <<>>]
    /\ filtered = <<>>
    /\ counted = <<>>
    /\ marks = <<>>
    /\ stats = <<>>

\* fetchFullSchedule has not been entered.
FetchIdle ==
    /\ sheetList = <<>>
    /\ courseSheet = <<>>
    /\ timeTableSheet = <<>>
    /\ fetchRows = <<>>
    /\ fetchCourses = <<>>
    /\ electiveSheetRanges = <<>>
    /\ electiveCodeToSheetTitle = <<>>
    /\ debugLog = <<>>
    /\ sectionASheet = <<>>
    /\ sectionBSheet = <<>>
    /\ studentDataMap = <<>>
    /\ electiveRows = <<>>

\* No two requests are running at once.
RaceIdle ==
    /\ raceClasses = <<>>
    /\ raceRemote = {}
    /\ raceNextId = 2
    /\ racePc = [p \in {1, 2} |-> "idle"]
    /\ raceMap = [p \in {1, 2} |-> <<>>]
    /\ raceFuture = [p \in {1, 2} |-> <<>>]
    /\ raceIdx = [p \in {1, 2} |-> 0]

DataIdle == BaseDataIdle /\ FetchIdle /\ RaceIdle

NoRequest == [kind |-> "none",
              session |-> [present |-> FALSE, accessToken |-> FALSE, email |-> FALSE]]

NoPrev == [kind |-> "none", status |-> 0, inserts |-> 0, fresh |-> FALSE]

Init ==
    /\ acceptsDmy \in BOOLEAN
    /\ sheet \in SheetLists
    /\ configured \in BOOLEAN
    /\ remote \in {{}, {EarlierEvent}}
    /\ nextId = 2
    /\ pc = "idle"
    /\ req = NoRequest
    /\ calls = <<>>
    /\ response = NoResponse
    /\ myClasses = <<>>
    /\ existingMap = <<>>
    /\ futureClasses = <<>>
    /\ idx = 0
    /\ remoteAtStart = {}
    /\ prev = NoPrev
    /\ runs = 0
    /\ pCourses = <<>>
    /\ headerRow = <<>>
    /\ timeSlots = <<>>
    /\ rows = <<>>
    /\ lastDate = <<>>
    /\ sessions = <<>>
    /\ origins = <<>>
    /\ DataIdle

CountOp(cs, op) == Cardinality({i \in 1..Len(cs) : cs[i].op = op})

Call(api, op, i, id, sig, ok) ==
    [api |-> api, op |-> op, idx |-> i, id |-> id, sig |-> sig, ok |-> ok]

\* -------------------------------------------------------------- the actions

\* The route's checks before its try block: 401 without a full session, 500
\* without SPREADSHEET_ID, 0 to go on.
RouteGuard(session, spreadsheetId) ==
    IF ~AuthOk(session) THEN 401
    ELSE IF ~spreadsheetId THEN 500
    ELSE 0

Summary ==
    [kind |-> req.kind, status |-> response.status,
     inserts |-> CountOp(calls, "insert"), fresh |-> remoteAtStart = {}]

\* A request arrives at one of the two routes and passes or fails the guard.
Receive ==
    /\ pc \in {"idle", "done"}
    /\ runs < MaxRuns
    /\ \E kind \in {"schedule", "sync"}, s \in SessionInputs :
         /\ req' = [kind |-> kind, session |-> s]
         /\ pc' = IF RouteGuard(s, configured) = 0 THEN "meta" ELSE "done"
         /\ response' = IF RouteGuard(s, configured) = 0 THEN NoResponse
                        ELSE ErrorResponse(RouteGuard(s, configured))
    /\ runs' = runs + 1
    /\ prev' = IF pc = "done" THEN Summary ELSE prev
    /\ calls' = <<>>
    /\ myClasses' = <<>>
    /\ existingMap' = <<>>
    /\ futureClasses' = <<>>
    /\ idx' = 0
    /\ remoteAtStart' = {}
    /\ UNCHANGED <<parseVars, dataVars, acceptsDmy, sheet, configured, remote, nextId>>

\* One awaited spreadsheet read of fetchFullSchedule, inside the route's try.
\* The routes call fetchFullSchedule(session.accessToken, spreadsheetId) and the
\* sync route reads data.studentMaster: the reads below are those of the
\* fetchFullSchedule with that parameter order and that result field (the
\* sheet list, the catalog, the roster batch when a roster sheet was found,
\* the timetable grid).
SheetsAwait(op, ok, next) ==
    /\ calls' = Append(calls, Call("sheets", op, 0, 0, <<>>, ok))
    /\ IF AfterAwait(ok, next) = "catch"
       THEN pc' = "done" /\ response' = CatchResponse
       ELSE pc' = AfterAwait(ok, next) /\ response' = response
    /\ UNCHANGED <<parseVars, dataVars, acceptsDmy, sheet, configured, remote, nextId, req, myClasses, existingMap,
                   futureClasses, idx, remoteAtStart, prev, runs>>

\* sheets.spreadsheets.get (the sheet list)
ReadMeta ==
    /\ pc = "meta"
    /\ \E ok \in BOOLEAN : SheetsAwait("metadata", ok, "catalog")

\* sheets.spreadsheets.values.get (the catalog); the roster batch is read only
\* when a section or elective sheet was found.
ReadCatalog ==
    /\ pc = "catalog"
    /\ \E ok \in BOOLEAN, hasRanges \in BOOLEAN :
         SheetsAwait("catalog", ok, IF hasRanges THEN "roster" ELSE "grid")

\* sheets.spreadsheets.values.batchGet (the rosters)
ReadRoster ==
    /\ pc = "roster"
    /\ \E ok \in BOOLEAN : SheetsAwait("roster", ok, "grid")

\* sheets.spreadsheets.get with includeGridData (the timetable), and what the
\* route does with the data: GET answers with it; POST filters the schedule and
\* enters syncToCalendar, up to its events.list.  POST reads the roster rows as
\* data.studentMaster and hands parseStudentProfile an empty elective map, so
\* its profile has a section and no electives.
ReadGrid ==
    /\ pc = "grid"
    /\ \E ok \in BOOLEAN :
         /\ calls' = Append(calls, Call("sheets", "grid", 0, 0, <<>>, ok))
         /\ IF AfterAwait(ok, "data") = "catch"
            THEN /\ pc' = "done"
                 /\ response' = CatchResponse
                 /\ UNCHANGED <<myClasses, remoteAtStart>>
            ELSE IF req.kind = "schedule"
            THEN /\ pc' = "done"
                 /\ response' = [status |-> 200, body |-> "data", count |-> NaN]
                 /\ UNCHANGED <<myClasses, remoteAtStart>>
            ELSE /\ pc' = "list"
                 /\ response' = response
                 /\ myClasses' = filterClassesForUser(sheet, SyncCourses, DefaultProfile)
                 /\ remoteAtStart' = remote
    /\ UNCHANGED <<parseVars, dataVars, acceptsDmy, sheet, configured, remote, nextId, req, existingMap,
                   futureClasses, idx, prev, runs>>

\* The maps existingEvents.forEach can build: one id per listed signature (the
\* last listed event of a signature wins, and the order is the service's).
MapsOf(listed) ==
    {m \in [{e.body.signature : e \in listed} -> {e.id : e \in listed}] :
        \A sg \in DOMAIN m : \E e \in listed : e.body.signature = sg /\ e.id = m[sg]}

\* calendar.events.list, then existingMap and futureClasses.
ListEvents ==
    /\ pc = "list"
    /\ \E ok \in BOOLEAN :
         /\ calls' = Append(calls, Call("calendar", "list", 0, 0, <<>>, ok))
         /\ IF AfterAwait(ok, "loop") = "catch"
            THEN /\ pc' = "done"
                 /\ response' = CatchResponse
                 /\ UNCHANGED <<existingMap, futureClasses, idx>>
            ELSE /\ pc' = "loop"
                 /\ response' = response
                 /\ existingMap' \in MapsOf(ListedEvents(remote, Now))
                 /\ futureClasses' =
                        SelectSeq(myClasses, LAMBDA c : IsFuture(c, Now, acceptsDmy))
                 /\ idx' = 1
    /\ UNCHANGED <<parseVars, dataVars, acceptsDmy, sheet, configured, remote, nextId, req, myClasses,
                   remoteAtStart, prev, runs>>

\* existingMap.get(signature), 0 for undefined
MapGet(map, sig) == IF sig \in DOMAIN map THEN map[sig] ELSE 0

InLoop == pc = "loop" /\ idx \in 1..Len(futureClasses)
CurSession == futureClasses[idx]
CurEventId == MapGet(existingMap, Signature(CurSession))
CurOp == SessionOp(CurSession, CurEventId)

\* A cancelled session with no listed event: continue.
SkipCancelled ==
    /\ InLoop
    /\ CurOp = "skip"
    /\ idx' = idx + 1
    /\ UNCHANGED <<parseVars, dataVars, acceptsDmy, sheet, configured, remote, nextId, pc, req, calls, response,
                   myClasses, existingMap, futureClasses, remoteAtStart, prev, runs>>

\* Building the event body throws (a slot label that is not "H:M - H:M").
BodyThrows ==
    /\ InLoop
    /\ CurOp \in {"update", "insert"}
    /\ ~BodyOk(CurSession)
    /\ pc' = "done"
    /\ response' = CatchResponse
    /\ UNCHANGED <<parseVars, dataVars, acceptsDmy, sheet, configured, remote, nextId, req, calls, myClasses,
                   existingMap, futureClasses, idx, remoteAtStart, prev, runs>>

\* One awaited calendar mutation of the loop.  The service rejects an update or
\* a delete of an event it does not hold; any call can fail.
Mutation(op, id, body) ==
    \E ok \in BOOLEAN :
      /\ ok => (op = "insert" \/ \E e \in remote : e.id = id)
      /\ calls' = Append(calls, Call("calendar", op, idx, id, Signature(CurSession), ok))
      /\ remote' = IF ok THEN ApplyMutation(remote, op, id, body) ELSE remote
      /\ nextId' = IF ok /\ op = "insert" THEN nextId + 1 ELSE nextId
      /\ IF AfterAwait(ok, "loop") = "catch"
         THEN pc' = "done" /\ response' = CatchResponse /\ idx' = idx
         ELSE pc' = "loop" /\ response' = response /\ idx' = idx + 1
      /\ UNCHANGED <<parseVars, dataVars, acceptsDmy, sheet, configured, req, myClasses, existingMap, futureClasses,
                     remoteAtStart, prev, runs>>

DeleteEvent ==
    /\ InLoop
    /\ CurOp = "delete"
    /\ Mutation("delete", CurEventId, <<>>)

UpdateEvent ==
    /\ InLoop
    /\ CurOp = "update"
    /\ BodyOk(CurSession)
    /\ Mutation("update", CurEventId, EventBody(CurSession, SyncCourses, acceptsDmy))

InsertEvent ==
    /\ InLoop
    /\ CurOp = "insert"
    /\ BodyOk(CurSession)
    /\ Mutation("insert", nextId, EventBody(CurSession, SyncCourses, acceptsDmy))

\* The loop is over: syncToCalendar returns (nothing), and the route answers
\* with count: myClasses.length.
Finish ==
    /\ pc = "loop"
    /\ idx > Len(futureClasses)
    /\ pc' = "done"
    /\ response' = [status |-> 200, body |-> "count", count |-> Len(myClasses)]
    /\ UNCHANGED <<parseVars, dataVars, acceptsDmy, sheet, configured, remote, nextId, req, calls, myClasses,
                   existingMap, futureClasses, idx, remoteAtStart, prev, runs>>

Next ==
    \/ Receive
    \/ ReadMeta
    \/ ReadCatalog
    \/ ReadRoster
    \/ ReadGrid
    \/ ListEvents
    \/ SkipCancelled
    \/ BodyThrows
    \/ DeleteEvent
    \/ UpdateEvent
    \/ InsertEvent
    \/ Finish

Spec == Init /\ [][Next]_vars

\* ------------------------------------------------ parseSchedule, row by row

\* Most data rows of a grid in the model.
MaxRows == 3

\* A cell whose text was typed: stringValue and formattedValue agree.
TextCell(text, strikethrough) == Cell(text, text, strikethrough)

\* The course mapping handed to parseSchedule.
ParseCourses ==
    (<<"DT">> :> [code |-> <<"DT">>, name |-> <<"Design Thinking">>, credits |-> 3,
                  type |-> <<"Core">>])
    @@ (<<"GT">> :> [code |-> <<"GT">>, name |-> <<"Game Theory">>, credits |-> 2,
                     type |-> <<"Elective">>])

CoursePool == {<<>>, ParseCourses}

\* Header rows: "Slot 1\n00:00 am - 01:00 am"; and a 24-hour label followed by
\* a column without a label.
HeaderPool ==
    {<<TextCell(<<"Date">>, FALSE), TextCell(<<"Room">>, FALSE),
       TextCell(<<"Sec">>, FALSE),
       TextCell(<<"Slot", " ", "1", "\n", "00", ":", "00 am", " ", "-", " ",
                  "01", ":", "00 am">>, FALSE)>>,
     <<TextCell(<<"Date">>, FALSE), TextCell(<<"Room">>, FALSE),
       TextCell(<<"Sec">>, FALSE), TextCell(Slot24(1), FALSE), NoCell>>}

\* Timetable cells: empty, a session, a struck session, a code with punctuation
\* and a section of its own, an unknown code, lunch, a text holding "break", a
\* word every object answers to, the name of the prototype slot, a bare code
\* kept as formattedValue only, blanks.
CellPool ==
    {NoCell,
     TextCell(<<"DT", " ", "1">>, FALSE),
     TextCell(<<"DT", " ", "1">>, TRUE),
     TextCell(<<"DT", ".", " ", "2", " ", "a">>, FALSE),
     TextCell(<<"XX", " ", "1">>, FALSE),
     TextCell(<<"Lunch">>, FALSE),
     TextCell(<<"GT", " ", "1", " ", "break", "fast">>, FALSE),
     TextCell(<<"constructor", " ", "1">>, FALSE),
     TextCell(<<"__proto__", " ", "1">>, FALSE),
     Cell(<<>>, <<"GT">>, FALSE),
     TextCell(<<" ">>, FALSE)}

\* Data rows: date, room, section, and the cells under the slots.
\* Every cell under a date of its own; the cells with and without a section
\* token in a row of section B, and one in a row of section "b"; a blank row and a session row under another
\* date and under no date; a row with a second slot cell; a struck session
\* under no date of its own, and a struck one with punctuation in its code.
RowPool ==
    {<<TextCell(LongDate(1), FALSE), NoCell, NoCell, c>> : c \in CellPool}
    \cup {<<TextCell(LongDate(1), FALSE), NoCell, TextCell(<<"B">>, FALSE), c>> :
            c \in {TextCell(<<"DT", " ", "1">>, FALSE),
                    TextCell(<<"DT", ".", " ", "2", " ", "a">>, FALSE)}}
    \cup {<<TextCell(LongDate(1), FALSE), NoCell, TextCell(<<"b">>, FALSE),
             TextCell(<<"DT", " ", "1">>, FALSE)>>}
    \cup {<<TextCell(d, FALSE), NoCell, NoCell, c>> :
            d \in {<<>>, DmyDate(2)}, c \in {NoCell, TextCell(<<"DT", " ", "1">>, FALSE)}}
    \cup {<<NoCell, NoCell, NoCell, NoCell, TextCell(<<"GT", " ", "2", " ", "B">>, FALSE)>>}
    \cup {<<TextCell(<<>>, FALSE), NoCell, NoCell, TextCell(<<"DT", " ", "1">>, TRUE)>>,
          <<TextCell(LongDate(1), FALSE), NoCell, NoCell,
            TextCell(<<"DT", ".", " ", "2", " ", "a">>, TRUE)>>}

\* parseSchedule is entered: the header is read, no data row yet.
ParseInit ==
    /\ acceptsDmy = TRUE
    /\ sheet = <<>>
    /\ configured = TRUE
    /\ remote = {}
    /\ nextId = 2
    /\ pc = "idle"
    /\ req = NoRequest
    /\ calls = <<>>
    /\ response = NoResponse
    /\ myClasses = <<>>
    /\ existingMap = <<>>
    /\ futureClasses = <<>>
    /\ idx = 0
    /\ remoteAtStart = {}
    /\ prev = NoPrev
    /\ runs = 0
    /\ DataIdle
    /\ pCourses \in CoursePool
    /\ headerRow \in HeaderPool
    /\ timeSlots = HeaderSlots(headerRow)
    /\ rows = <<>>
    /\ lastDate = <<>>
    /\ sessions = <<>>
    /\ origins = <<>>

\* The forEach callback runs on the next data row.
ForEachRow ==
    /\ Len(rows) < MaxRows
    /\ \E values \in RowPool :
          LET r == ForEachRowResult(values, lastDate, timeSlots, pCourses) IN
          /\ rows' = Append(rows, values)
          /\ lastDate' = r.lastDate
          /\ sessions' = sessions \o r.pushed
          /\ origins' = origins \o [n \in 1..Len(r.pushed) |->
                                      [row |-> Len(rows) + 1,
                                       slot |-> RowSlots(values, timeSlots, 1,
                                                         pCourses)[n]]]
    /\ UNCHANGED <<syncVars, dataVars, pCourses, headerRow, timeSlots>>

ParseNext == ForEachRow

SpecParse == ParseInit /\ [][ParseNext]_vars

\* --------------------------------- the data functions, each on its own inputs

\* Most data rows of a catalog, and most rows of the student roster.
MaxCatalogRows == 2
MaxRosterRows == 2

\* Most sessions calculateStats goes through.
MaxCounted == 5

\* Row 0 of the catalog: the column titles.
CatalogHeaderPool ==
    {<<<<"Sl">>, <<"Name">>, <<"Credit">>, <<"Code">>, <<"Type">>>>}

\* Catalog rows: Sl, Name, Credit, Code, Type.  A core course; an elective with
\* padding around the code and a type over two lines; a second row of the same
\* code; a blank code; a row that ends before the code; a row without a type;
\* a code that names the prototype slot of an object.
CatalogRowPool ==
    {<<<<"1">>, <<"Design Thinking">>, <<"3">>, <<"DT">>, <<"Core">>>>,
     <<<<"2">>, <<"Game Theory">>, <<"2">>, <<" ", "GT", " ">>,
       <<"Compl.", "\n", " ", "Elective">>>>,
     <<<<"3">>, <<" ", "Game Theory II">>, <<"two">>, <<"GT">>, <<"Elective">>>>,
     <<<<"4">>, <<"No Code">>, <<"1">>, <<" ", " ">>, <<"Core">>>>,
     <<<<"5">>, <<"Short">>>>,
     <<<<"6">>, <<"Lab">>, <<"1">>, <<"LAB">>>>,
     <<<<"7">>, <<"Proto">>, <<"1">>, <<"__proto__">>, <<"Core">>>>}

\* A roster row: the email in column 3, the section in column 9.
RosterRow(email, sec) ==
    <<<<>>, <<>>, <<>>, email, <<>>, <<>>, <<>>, <<>>, <<>>, sec>>

\* The emails parseStudentProfile is called with.
EmailPool == {<<"ann@x.in">>, <<" ", "Ann@X.in", " ">>, <<"bob@x.in">>, <<" ">>}

RosterRowPool ==
    {RosterRow(<<"ann@x.in">>, <<"B">>),
     RosterRow(<<"ANN@X.IN", " ">>, <<" ", "b", " ">>),
     RosterRow(<<"ann@x.in">>, <<"C">>),
     <<<<>>, <<>>, <<>>, <<"ann@x.in">>>>,
     RosterRow(<<"bob@x.in">>, <<"B">>),
     RosterRow(<<>>, <<"B">>),
     <<<<"1">>>>}

RECURSIVE SeqsUpTo(_, _)
SeqsUpTo(S, n) ==
    IF n = 0 THEN {<<>>}
    ELSE SeqsUpTo(S, n - 1)
         \cup {Append(s, x) : s \in {q \in SeqsUpTo(S, n - 1) : Len(q) = n - 1}, x \in S}

\* The rosters of the elective sheets.
ElectiveRosterPool ==
    {<<>>,
     <<RosterRow(<<"ann@x.in">>, <<>>)>>,
     <<RosterRow(<<"bob@x.in">>, <<>>), RosterRow(<<" ", "Ann@X.in">>, <<>>)>>,
     <<<<<<"1">>>>>>}

\* electiveRowsMap as its entries: no elective, one, or two in either order.
ElectiveMapPool ==
    {<<>>}
    \cup {<<[code |-> <<"GT">>, rows |-> r]>> : r \in ElectiveRosterPool}
    \cup {<<[code |-> c[1], rows |-> r1], [code |-> c[2], rows |-> r2]>> :
            c \in {<<<<"GT">>, <<"HR">>>>, <<<<"HR">>, <<"GT">>>>},
            r1 \in ElectiveRosterPool, r2 \in ElectiveRosterPool}

\* A session of a course, as the filter and the statistics see it.
SessionOf(code, number, section, cancelled) ==
    [date |-> LongDate(1), timeSlot |-> Slot24(1), courseCode |-> code,
     sessionNumber |-> number, section |-> section,
     raw |-> code \o <<" ">> \o number, isCancelled |-> cancelled]

FilterSessionPool ==
    {SessionOf(<<"DT">>, <<"1">>, "null", FALSE),
     SessionOf(<<"DT">>, <<"2">>, "A", TRUE),
     SessionOf(<<"DT">>, <<"3">>, "B", FALSE),
     SessionOf(<<"GT">>, <<"1">>, "B", FALSE),
     SessionOf(<<"LAB">>, <<"1">>, "B", FALSE),
     SessionOf(<<"__proto__">>, <<"1">>, "B", FALSE)}

StatSessionPool ==
    {SessionOf(<<"DT">>, <<"1">>, "null", FALSE),
     SessionOf(<<"DT">>, <<"2">>, "A", TRUE),
     SessionOf(<<"GT">>, <<"1">>, "null", FALSE),
     SessionOf(<<"constructor">>, <<"1">>, "null", FALSE)}

\* Attendance maps over the keys DT-1 and GT-1.
MarksPool ==
    UNION {[K -> {"Present", "Absent"}] :
             K \in SUBSET {<<"DT", "-", "1">>, <<"GT", "-", "1">>}}

\* No request is being served.
SyncIdle ==
    /\ acceptsDmy = TRUE
    /\ sheet = <<>>
    /\ configured = TRUE
    /\ remote = {}
    /\ nextId = 2
    /\ pc = "idle"
    /\ req = NoRequest
    /\ calls = <<>>
    /\ response = NoResponse
    /\ myClasses = <<>>
    /\ existingMap = <<>>
    /\ futureClasses = <<>>
    /\ idx = 0
    /\ remoteAtStart = {}
    /\ prev = NoPrev
    /\ runs = 0

\* parseSchedule has not been entered.
ParseIdle ==
    /\ pCourses = <<>>
    /\ headerRow = <<>>
    /\ timeSlots = <<>>
    /\ rows = <<>>
    /\ lastDate = <<>>
    /\ sessions = <<>>
    /\ origins = <<>>

DataInit == SyncIdle /\ ParseIdle /\ DataIdle

\* parseCourses is entered with a catalog; row 0 is passed over.
EnterParseCourses ==
    /\ step = "start"
    /\ \E header \in CatalogHeaderPool : catalog' = <<header>>
    /\ catCourses' = <<>>
    /\ step' = "catalog"
    /\ UNCHANGED <<syncVars, parseVars, fetchVars, raceVars, targetEmail, rosterRows, electiveRosters,
                   builtProfile, schedule, viewer, filtered, counted, marks, stats>>

\* The forEach callback of parseCourses runs on the next row.
ForEachCatalogRow ==
    /\ step = "catalog"
    /\ Len(catalog) <= MaxCatalogRows
    /\ \E row \in CatalogRowPool :
          /\ catalog' = Append(catalog, row)
          /\ catCourses' = ParseCoursesRow(catCourses, row)
    /\ UNCHANGED <<syncVars, parseVars, fetchVars, raceVars, step, targetEmail, rosterRows, electiveRosters,
                   builtProfile, schedule, viewer, filtered, counted, marks, stats>>

\* filterClassesForUser on a schedule, the parsed catalog and a profile.
FilterClasses ==
    /\ step = "catalog"
    /\ \E list \in SeqsUpTo(FilterSessionPool, MaxSessions), up \in ProfilePool :
          /\ schedule' = list
          /\ viewer' = up
          /\ filtered' = filterClassesForUser(list, catCourses, up)
    /\ step' = "filtered"
    /\ UNCHANGED <<syncVars, parseVars, fetchVars, raceVars, catalog, catCourses, targetEmail, rosterRows,
                   electiveRosters, builtProfile, counted, marks, stats>>

\* parseStudentProfile on an email, a roster and the elective rosters.
ParseProfile ==
    /\ step = "start"
    /\ \E email \in EmailPool, studentRows \in SeqsUpTo(RosterRowPool, MaxRosterRows),
          entries \in ElectiveMapPool :
          /\ targetEmail' = email
          /\ rosterRows' = studentRows
          /\ electiveRosters' = entries
          /\ builtProfile' = ScheduleRouteProfile(email, studentRows, entries)
    /\ step' = "profile"
    /\ UNCHANGED <<syncVars, parseVars, fetchVars, raceVars, catalog, catCourses, schedule, viewer, filtered,
                   counted, marks, stats>>

\* calculateStats is entered with an attendance map.
EnterStats ==
    /\ step = "start"
    /\ marks' \in MarksPool
    /\ counted' = <<>>
    /\ stats' = <<>>
    /\ step' = "counting"
    /\ UNCHANGED <<syncVars, parseVars, fetchVars, raceVars, catalog, catCourses, targetEmail, rosterRows,
                   electiveRosters, builtProfile, schedule, viewer, filtered>>

\* The forEach callback of calculateStats runs on the next session.
ForEachSession ==
    /\ step = "counting"
    /\ Len(counted) < MaxCounted
    /\ \E session \in StatSessionPool :
          /\ counted' = Append(counted, session)
          /\ stats' = CountSession(stats, session, marks)
    /\ UNCHANGED <<syncVars, parseVars, fetchVars, raceVars, step, catalog, catCourses, targetEmail, rosterRows,
                   electiveRosters, builtProfile, schedule, viewer, filtered, marks>>

\* The allowed leaves are filled in and the statistics returned.
ReturnStats ==
    /\ step = "counting"
    /\ stats' = WithAllowedLeaves(stats)
    /\ step' = "stats"
    /\ UNCHANGED <<syncVars, parseVars, fetchVars, raceVars, catalog, catCourses, targetEmail, rosterRows,
                   electiveRosters, builtProfile, schedule, viewer, filtered, counted,
                   marks>>

\* Workbooks, each the titles of its sheets in order: the usual one; a
\* code-and-list sheet ahead of a sheet with the course name; sheets found by
\* the prefix of a code; one list for two codes; a title inside another; a
\* roster whose title holds a section title; a timetable in front; titles
\* without keywords; a single sheet; no sheet; two lists of one code and a
\* sheet named as a core course.
WorkbookPool ==
    LET details == <<"Course", " ", "Details">>
        timeTable == <<"Time", " ", "Table">>
        sectionA == <<"Section", " ", "A">>
        sectionB == <<"Section", " ", "B">>
    IN {<<details, timeTable, sectionA, sectionB,
          <<"Game Theory">>, <<"HR", " ", "List">>>>,
        <<details, timeTable, <<"GT", " ", "List">>, <<"GAME THEORY">>>>,
        <<details, timeTable, <<"LSF", " ", "List">>, <<"E", " ", "List">>>>,
        <<details, timeTable, <<"HR", " ", "GT", " ", "List">>>>,
        <<details, timeTable, <<"HR", " ", "List">>, <<"HR", " ", "List", " ", "GT">>>>,
        <<details, timeTable, sectionA, <<"Game Theory", " ", "Section", " ", "A">>>>,
        <<timeTable, <<"Other">>>>,
        <<<<"Other">>, <<"List">>>>,
        <<details>>,
        <<>>,
        <<details, timeTable, <<"Design Thinking">>, <<"DT", " ", "List">>,
          <<"GT", " ", "List", " ", "2">>, <<"GT", " ", "List">>>>}

\* Catalogs read from the catalog sheet: a core course and two electives, one
\* of a type written over two lines; the electives the other way round;
\* electives with a hyphen in the code; no course.
FetchCatalogPool ==
    LET header == <<<<"Sl">>, <<"Name">>, <<"Credit">>, <<"Code">>, <<"Type">>>>
        dt == <<<<"1">>, <<"Design Thinking">>, <<"3">>, <<"DT">>, <<"Core">>>>
        gt == <<<<"2">>, <<"Game Theory">>, <<"2">>, <<"GT">>, <<"Elective">>>>
        hr == <<<<"3">>, <<"Human Resources">>, <<"2">>, <<"HR">>,
                <<"Compl.", "\n", " ", "Elective">>>>
        lsf == <<<<"4">>, <<"Law">>, <<"2">>, <<"LSF", "-", "III">>, <<"ELECTIVE">>>>
        e1 == <<<<"5">>, <<"Ethics">>, <<"1">>, <<"E", "-", "1">>, <<"Elective">>>>
    IN {<<header, dt, gt, hr>>, <<header, hr, gt>>, <<header, lsf, e1, dt>>, <<header>>}

\* Lines 204-216: the sheet list is read and the two sheets are chosen.
FetchMeta ==
    /\ step = "start"
    /\ sheetList' \in WorkbookPool
    /\ courseSheet' = CourseSheetOf(sheetList')
    /\ timeTableSheet' = TimeTableSheetOf(sheetList')
    /\ step' = "meta"
    /\ UNCHANGED <<syncVars, parseVars, raceVars, catalog, catCourses, targetEmail,
                   rosterRows, electiveRosters, builtProfile, schedule, viewer, filtered,
                   counted, marks, stats,
                   fetchRows, fetchCourses, electiveSheetRanges,
                   electiveCodeToSheetTitle, debugLog, sectionASheet, sectionBSheet,
                   studentDataMap, electiveRows>>

\* Lines 218-277: the catalog is read and parsed, the elective sheets are
\* discovered and the section sheets looked up.
FetchCatalog ==
    /\ step = "meta"
    /\ \E values \in FetchCatalogPool :
          /\ fetchRows' = values
          /\ fetchCourses' = parseCourses(values)
          /\ electiveSheetRanges' = Discover(values, sheetList).ranges
          /\ electiveCodeToSheetTitle' = Discover(values, sheetList).titles
          /\ debugLog' = Discover(values, sheetList).log
    /\ sectionASheet' = SheetNamed(sheetList, <<"section", " ", "a">>)
    /\ sectionBSheet' = SheetNamed(sheetList, <<"section", " ", "b">>)
    /\ step' = "discovered"
    /\ UNCHANGED <<syncVars, parseVars, raceVars, catalog, catCourses, targetEmail,
                   rosterRows, electiveRosters, builtProfile, schedule, viewer, filtered,
                   counted, marks, stats,
                   sheetList, courseSheet, timeTableSheet, studentDataMap,
                   electiveRows>>

\* Lines 279-328: the batch read returns a value range per requested range and
\* the rows are mapped back.
FetchRosters ==
    /\ step = "discovered"
    /\ LET maps == ReadRosters(RangesToFetch(sectionASheet, sectionBSheet,
                                              electiveSheetRanges),
                                sectionASheet, sectionBSheet, electiveCodeToSheetTitle)
       IN /\ studentDataMap' = maps.students
          /\ electiveRows' = maps.electives
    /\ step' = "rosters"
    /\ UNCHANGED <<syncVars, parseVars, raceVars, catalog, catCourses, targetEmail,
                   rosterRows, electiveRosters, builtProfile, schedule, viewer, filtered,
                   counted, marks, stats,
                   sheetList, courseSheet, timeTableSheet, fetchRows,
                   fetchCourses, electiveSheetRanges, electiveCodeToSheetTitle, debugLog,
                   sectionASheet, sectionBSheet>>

DataNext ==
    \/ FetchMeta
    \/ FetchCatalog
    \/ FetchRosters
    \/ EnterParseCourses
    \/ ForEachCatalogRow
    \/ FilterClasses
    \/ ParseProfile
    \/ EnterStats
    \/ ForEachSession
    \/ ReturnStats

SpecData == DataInit /\ [][DataNext]_vars

\* ------------------------------------- two sync requests of one user at once

\* The two requests.
Requests == {1, 2}

\* The sessions of the user in the race: today's, live and cancelled, in a slot
\* that is not over; tomorrow's; and one under a slot label with am/pm.
RaceSessionPool ==
    {MkSession(LongDate(1), Slot24(1), FALSE),
     MkSession(LongDate(1), Slot24(1), TRUE),
     MkSession(LongDate(2), Slot24(1), FALSE),
     MkSession(LongDate(1), SlotAmPm(1), FALSE)}

\* Lists in which no two sessions have one signature.
RaceLists ==
    {list \in SeqsUpTo(RaceSessionPool, MaxSessions) :
        \A i, j \in 1..Len(list) :
           Signature(list[i]) = Signature(list[j]) => i = j}

RaceInit ==
    /\ SyncIdle /\ ParseIdle /\ BaseDataIdle /\ FetchIdle
    /\ raceClasses \in RaceLists
    /\ raceRemote \in {{}, {EarlierEvent}}
    /\ raceNextId = 2
    /\ racePc = [p \in Requests |-> "list"]
    /\ raceMap = [p \in Requests |-> <<>>]
    /\ raceFuture = [p \in Requests |-> <<>>]
    /\ raceIdx = [p \in Requests |-> 0]

\* calendar.events.list of request p, then its existingMap and futureClasses
\* (part_003 lines 37-60); a failed call ends the request in the catch block.
RaceList(p) ==
    /\ racePc[p] = "list"
    /\ \E ok \in BOOLEAN :
         IF AfterAwait(ok, "loop") = "catch"
         THEN /\ racePc' = [racePc EXCEPT ![p] = "done"]
              /\ UNCHANGED <<raceMap, raceFuture, raceIdx>>
         ELSE /\ racePc' = [racePc EXCEPT ![p] = "loop"]
              /\ \E m \in MapsOf(ListedEvents(raceRemote, Now)) :
                    raceMap' = [raceMap EXCEPT ![p] = m]
              /\ raceFuture' = [raceFuture EXCEPT ![p] =
                    SelectSeq(raceClasses, LAMBDA c : IsFuture(c, Now, acceptsDmy))]
              /\ raceIdx' = [raceIdx EXCEPT ![p] = 1]
    /\ UNCHANGED <<syncVars, parseVars, baseDataVars, fetchVars, raceClasses, raceRemote,
                   raceNextId>>

RaceInLoop(p) == racePc[p] = "loop" /\ raceIdx[p] \in 1..Len(raceFuture[p])
RaceSession(p) == raceFuture[p][raceIdx[p]]
RaceEventId(p) == MapGet(raceMap[p], Signature(RaceSession(p)))
RaceOp(p) == SessionOp(RaceSession(p), RaceEventId(p))

\* Request p passes over a cancelled session with no listed event (lines 69-75).
RaceSkip(p) ==
    /\ RaceInLoop(p)
    /\ RaceOp(p) = "skip"
    /\ raceIdx' = [raceIdx EXCEPT ![p] = @ + 1]
    /\ UNCHANGED <<syncVars, parseVars, baseDataVars, fetchVars, raceClasses, raceRemote,
                   raceNextId, racePc, raceMap, raceFuture>>

\* Building the event body throws in request p (lines 84-101).
RaceBodyThrows(p) ==
    /\ RaceInLoop(p)
    /\ RaceOp(p) \in {"update", "insert"}
    /\ ~BodyOk(RaceSession(p))
    /\ racePc' = [racePc EXCEPT ![p] = "done"]
    /\ UNCHANGED <<syncVars, parseVars, baseDataVars, fetchVars, raceClasses, raceRemote,
                   raceNextId, raceMap, raceFuture, raceIdx>>

\* One awaited calendar mutation of request p (lines 72, 110-122).  The service
\* applies the calls one at a time and rejects an update or a delete of an
\* event it does not hold.
RaceMutation(p) ==
    /\ RaceInLoop(p)
    /\ RaceOp(p) \in {"delete", "update", "insert"}
    /\ RaceOp(p) \in {"update", "insert"} => BodyOk(RaceSession(p))
    /\ \E ok \in BOOLEAN :
         LET op == RaceOp(p)
             id == IF op = "insert" THEN raceNextId ELSE RaceEventId(p)
             body == IF op = "delete" THEN <<>>
                     ELSE EventBody(RaceSession(p), SyncCourses, acceptsDmy)
         IN /\ ok => (op = "insert" \/ \E e \in raceRemote : e.id = id)
            /\ raceRemote' = IF ok THEN ApplyMutation(raceRemote, op, id, body)
                             ELSE raceRemote
            /\ raceNextId' = IF ok /\ op = "insert" THEN raceNextId + 1 ELSE raceNextId
            /\ IF AfterAwait(ok, "loop") = "catch"
               THEN racePc' = [racePc EXCEPT ![p] = "done"] /\ raceIdx' = raceIdx
               ELSE racePc' = racePc /\ raceIdx' = [raceIdx EXCEPT ![p] = @ + 1]
    /\ UNCHANGED <<syncVars, parseVars, baseDataVars, fetchVars, raceClasses, raceMap,
                   raceFuture>>

\* The loop of request p is over and the route answers.
RaceFinish(p) ==
    /\ racePc[p] = "loop"
    /\ raceIdx[p] > Len(raceFuture[p])
    /\ racePc' = [racePc EXCEPT ![p] = "done"]
    /\ UNCHANGED <<syncVars, parseVars, baseDataVars, fetchVars, raceClasses, raceRemote,
                   raceNextId, raceMap, raceFuture, raceIdx>>

RaceNext ==
    \E p \in Requests :
       \/ RaceList(p)
       \/ RaceSkip(p)
       \/ RaceBodyThrows(p)
       \/ RaceMutation(p)
       \/ RaceFinish(p)

SpecRace == RaceInit /\ [][RaceNext]_vars

\* ------------------------------------------------ what the claims talk about

Mutations == {"insert", "update", "delete"}

\* syncToCalendar was entered and its events.list answered.
Listed == \E k \in 1..Len(calls) : calls[k].op = "list" /\ calls[k].ok

\* The sync request ended with the success response.
SyncDone == pc = "done" /\ req.kind = "sync" /\ response.status = 200

\* The calls the loop issued for the session at index j of futureClasses.
CallsFor(j) == {k \in 1..Len(calls) : calls[k].api = "calendar" /\ calls[k].idx = j}

\* The date of the session, read as the dashboard reads it, is today or later.
DatedTodayOrLater(s) ==
    parseSheetDate(s.date, acceptsDmy) # NaN /\ parseSheetDate(s.date, acceptsDmy) >= Now.day

NoDuplicateEvents ==
    \A e1, e2 \in remote : e1.body.signature = e2.body.signature => e1 = e2

\* The remote calendar obtained from `events` by the successful mutations of cs.
RECURSIVE Replay(_, _)
Replay(events, cs) ==
    IF cs = <<>> THEN events
    ELSE LET c == Head(cs) IN
         Replay(IF c.ok /\ c.op \in Mutations
                THEN ApplyMutation(events, c.op, c.id,
                                   IF c.op = "delete" THEN <<>>
                                   ELSE EventBody(futureClasses[c.idx], SyncCourses,
                                                  acceptsDmy))
                ELSE events,
                Tail(cs))

\* C1 (as claimed): a successful sync that follows a successful sync of the same
\* session list, the first one run against a calendar without tagged events,
\* issues no insert and as many updates as the first issued inserts, and the
\* calendar holds no two events with one signature.
C1_SecondSyncOnlyUpdates ==
    (SyncDone /\ prev.kind = "sync" /\ prev.status = 200 /\ prev.fresh)
    => /\ CountOp(calls, "insert") = 0
       /\ CountOp(calls, "update") = prev.inserts
       /\ NoDuplicateEvents

\* C2 (as claimed): after a successful sync the signatures of the tagged events
\* that start at or after now are exactly the signatures of the live sessions
\* of the list dated today or later.
C2_CalendarInSync ==
    SyncDone
    => {e.body.signature : e \in {x \in remote : TimeVal(x.body.start) >= TimeVal(Now)}}
       = {Signature(myClasses[i]) :
            i \in {n \in 1..Len(myClasses) :
                     ~myClasses[n].isCancelled /\ DatedTodayOrLater(myClasses[n])}}

\* The loop issued no insert and no update for a cancelled session.
NoUpsertForCancelled ==
    \A j \in 1..Len(futureClasses) :
       futureClasses[j].isCancelled
       => \A k \in CallsFor(j) : calls[k].op \notin {"insert", "update"}

\* The cancelled sessions of the list dated today or later.
CancelledAhead ==
    {myClasses[i] : i \in {n \in 1..Len(myClasses) :
                             myClasses[n].isCancelled /\ DatedTodayOrLater(myClasses[n])}}

\* C3 (as claimed): in a sync against a calendar without tagged events, a
\* cancelled session dated today or later gets no insert and no update, and when
\* the run has ended no event carries its signature.
C3_NoEventWithCancelledSignature ==
    (Listed /\ remoteAtStart = {})
    => /\ NoUpsertForCancelled
       /\ pc = "done" =>
            \A c \in CancelledAhead :
               \A e \in remote : e.body.signature # Signature(c)

\* C3 (amended): in a sync against a calendar without tagged events, a cancelled
\* session dated today or later gets no insert and no update, and when the run
\* has ended an event carries its signature only if the list also holds a live
\* session dated today or later with the same signature.
C3_CancelledNeverSynced ==
    (Listed /\ remoteAtStart = {})
    => /\ NoUpsertForCancelled
       /\ pc = "done" =>
            \A c \in CancelledAhead :
               \A e \in remote :
                  e.body.signature = Signature(c)
                  => \E i \in 1..Len(myClasses) :
                        /\ ~myClasses[i].isCancelled
                        /\ DatedTodayOrLater(myClasses[i])
                        /\ Signature(myClasses[i]) = e.body.signature

\* A sync against a calendar without tagged events has run to its end over a
\* list with a cancelled session of today or later.
C3_Witness ==
    /\ SyncDone /\ remoteAtStart = {}
    /\ \E j \in 1..Len(futureClasses) : futureClasses[j].isCancelled

\* The signatures and ids events.list returned to this run.
ListedAtStart == ListedEvents(remoteAtStart, Now)

\* C4: once the loop is past a cancelled session of today or later, it has
\* issued for it exactly one call, a delete of a listed event with the session's
\* signature, when such an event was listed, and no call at all otherwise; at
\* no time has it issued any other call for it.
C4_CancelledDeletesListedEvent ==
    Listed =>
    \A j \in 1..Len(futureClasses) :
       futureClasses[j].isCancelled
       => LET sig == Signature(futureClasses[j])
              ids == {e.id : e \in {x \in ListedAtStart : x.body.signature = sig}}
          IN /\ \A k \in CallsFor(j) : calls[k].op = "delete" /\ calls[k].id \in ids
             /\ Cardinality(CallsFor(j)) <= 1
             /\ (j < idx \/ SyncDone)
                => Cardinality(CallsFor(j)) = IF ids # {} THEN 1 ELSE 0

\* The loop deleted the listed event of a cancelled session.
C4_Witness ==
    \E k \in 1..Len(calls) :
       /\ calls[k].op = "delete" /\ calls[k].ok
       /\ futureClasses[calls[k].idx].isCancelled
       /\ idx > calls[k].idx

\* C5: a failed insert, update or delete is the last remote call of the
\* request; the calendar is what the successful mutations before it made of it;
\* and the response is the error response, without a count.
C5_FailedMutationAborts ==
    \A k \in 1..Len(calls) :
       (calls[k].op \in Mutations /\ ~calls[k].ok)
       => /\ k = Len(calls)
          /\ pc = "done"
          /\ response = [status |-> 500, body |-> "error", count |-> NaN]
          /\ remote = Replay(remoteAtStart, calls)

\* A mutation failed after another one had been applied.
C5_Witness ==
    \E k1, k2 \in 1..Len(calls) :
       /\ k1 < k2
       /\ calls[k1].op \in Mutations /\ calls[k1].ok
       /\ calls[k2].op \in Mutations /\ ~calls[k2].ok
       /\ remote # remoteAtStart

\* C6: a request without a session, an access token or a user email is answered
\* 401, and one with them but without SPREADSHEET_ID is answered 500, in both
\* routes, and no remote call is made for it.
C6_RejectedBeforeAnyRemoteCall ==
    req.kind # "none"
    => LET s == req.session
           unauthorized == ~s.present \/ ~s.accessToken \/ ~s.email
       IN /\ unauthorized
             => /\ pc = "done" /\ calls = <<>>
                /\ response = [status |-> 401, body |-> "error", count |-> NaN]
          /\ (~unauthorized /\ ~configured)
             => /\ pc = "done" /\ calls = <<>>
                /\ response = [status |-> 500, body |-> "error", count |-> NaN]

\* The sync route has rejected a request whose session has no email.
C6_Witness ==
    /\ req.kind = "sync" /\ req.session.present /\ ~req.session.email
    /\ response.status = 401

\* C7: a failed spreadsheet read is the last remote call of the request (no
\* read is made twice, no calendar call is made), and the response is the error
\* response, with none of courses, schedule and userProfile.
C7_FailedReadIsFatal ==
    \A k \in 1..Len(calls) :
       (calls[k].api = "sheets" /\ ~calls[k].ok)
       => /\ k = Len(calls)
          /\ \A i, j \in 1..Len(calls) : calls[i].op = calls[j].op => i = j
          /\ \A i \in 1..Len(calls) : calls[i].api # "calendar"
          /\ pc = "done"
          /\ response = [status |-> 500, body |-> "error", count |-> NaN]

\* The roster read of a sync request has failed.
C7_Witness ==
    /\ req.kind = "sync"
    /\ \E k \in 1..Len(calls) : calls[k].op = "roster" /\ ~calls[k].ok

\* C8 (as claimed): every session of the list whose date is today or later, read
\* with the manual DD-MMM-YYYY parser where the generic one fails, is among the
\* sessions the loop processes.
C8_ManualFallbackKeepsSession ==
    Listed =>
    \A i \in 1..Len(myClasses) :
       DatedTodayOrLater(myClasses[i])
       => \E j \in 1..Len(futureClasses) : futureClasses[j] = myClasses[i]

\* C9 (as claimed): the count of the success response is the number of sessions
\* the reconciler processed.
C9_CountIsProcessed ==
    SyncDone => response.count = Len(futureClasses)

\* ------------------------------------------------------------------- C10

\* parseSchedule's output on the rows gone through is what the pure function
\* gives on the same grid.
ParsedSoFar == sessions = parseSchedule(headerRow, rows, pCourses)

\* C10: every session parseSchedule returns has a courseCode that is a key of
\* the course mapping.
C10_SessionCodesAreCourseKeys ==
    \A i \in 1..Len(sessions) : sessions[i].courseCode \in OwnKeys(pCourses)

\* ------------------------------------------------------------------- C11

\* The text of the date cell of data row k.
DateCellOf(k) == CellText(CellAt(rows[k], 0))

\* The date of the nearest data row before row k whose date cell is not empty
\* (<<>>: there is none).
NearestDate(k) ==
    LET dated == {j \in 1..(k - 1) : DateCellOf(j) # <<>>} IN
    IF dated = {} THEN <<>>
    ELSE DateCellOf(CHOOSE j \in dated : \A j2 \in dated : j2 <= j)

\* C11 (as claimed): a session from a data row with an empty date cell carries
\* the date of the nearest preceding data row with a date, and a row before
\* every dated row gives no session.
C11_DateOfNearestDatedRow ==
    \A i \in 1..Len(sessions) :
       DateCellOf(origins[i].row) = <<>>
       => /\ NearestDate(origins[i].row) # <<>>
          /\ sessions[i].date = NearestDate(origins[i].row)

\* ------------------------------------------------------------------- C12

\* The cell a pushed session came from, its tokens, and the column-2 value of
\* its row.
OriginCell(i) == CellAt(rows[origins[i].row], origins[i].slot + 2)
OriginTokens(i) == SplitWs(Trim(CellText(OriginCell(i))))
OriginRowSection(i) == Trim(CellText(CellAt(rows[origins[i].row], 2)))

\* C12: the section of a session is the third token of its cell, upper-cased,
\* when that token is A or B in either case; else the column-2 value of its row
\* when that is A or B; else null.
C12_CellSectionOverridesRow ==
    \A i \in 1..Len(sessions) :
       LET third == IF Len(OriginTokens(i)) >= 3 THEN OriginTokens(i)[3] ELSE <<>> IN
       sessions[i].section =
          IF third \in {<<"A">>, <<"a">>} THEN "A"
          ELSE IF third \in {<<"B">>, <<"b">>} THEN "B"
          ELSE IF OriginRowSection(i) = <<"A">> THEN "A"
          ELSE IF OriginRowSection(i) = <<"B">> THEN "B"
          ELSE "null"

\* The output holds a session of section A from a cell "DT. 2 a" in a row of
\* section B, and one of section B from a cell without a third token.
C12_Witness ==
    /\ \E i \in 1..Len(sessions) :
          /\ Len(OriginTokens(i)) >= 3 /\ OriginTokens(i)[3] = <<"a">>
          /\ OriginRowSection(i) = <<"B">> /\ sessions[i].section = "A"
    /\ \E i \in 1..Len(sessions) :
          /\ Len(OriginTokens(i)) < 3
          /\ OriginRowSection(i) = <<"B">> /\ sessions[i].section = "B"

\* ------------------------------------------------------------------- C13

Range(f) == {f[x] : x \in DOMAIN f}

\* The white-space separated tokens of a cell.
TokensOf(cell) == SplitWs(Trim(CellText(cell)))

\* One of the tokens is the word lunch or break, in any case.
HasPauseToken(cell) ==
    \E n \in 1..Len(TokensOf(cell)) :
       ToLowerCase(TokensOf(cell)[n]) \in {<<"lunch">>, <<"break">>}

\* The cell holds a recognised course code: it is not blank, none of its
\* tokens is lunch or break, and its first token, as written or without its
\* non-alphanumeric characters, is a key of the mapping.
NamesKnownCourse(cell) ==
    /\ Trim(CellText(cell)) # <<>>
    /\ ~HasPauseToken(cell)
    /\ TokensOf(cell)[1] \in OwnKeys(pCourses)
       \/ StripNonAlnum(TokensOf(cell)[1]) \in OwnKeys(pCourses)

\* Data row k has a date as the parser has it: its own, or one carried from a
\* row above it that the parser did not skip as blank.
HasDateContext(k) ==
    \/ DateCellOf(k) # <<>>
    \/ \E j \in 1..(k - 1) : HasData(rows[j]) /\ DateCellOf(j) # <<>>

\* The sessions pushed from slot n of data row k.
SessionsFrom(k, n) ==
    {i \in 1..Len(sessions) : origins[i] = [row |-> k, slot |-> n]}

\* The list with every isCancelled value turned over.
Flipped(list) == [i \in 1..Len(list) |-> [list[i] EXCEPT !.isCancelled = ~@]]

\* C13 (as claimed): a struck-through cell with a recognised course code, in a
\* row that has a date of its own or a dated row above it, gives exactly one
\* session, with isCancelled = TRUE; and filterClassesForUser keeps of the
\* parsed sessions what it keeps of the same sessions with the other
\* isCancelled values, for every profile.
C13_CancellationIsAFlag ==
    /\ \A k \in 1..Len(rows) : \A n \in 1..Len(timeSlots) :
          LET cell == CellAt(rows[k], n + 2) IN
          (/\ cell.strikethrough
           /\ NamesKnownCourse(cell)
           /\ DateCellOf(k) # <<>> \/ NearestDate(k) # <<>>)
          => /\ Cardinality(SessionsFrom(k, n)) = 1
             /\ \A i \in SessionsFrom(k, n) : sessions[i].isCancelled
    /\ \A profile \in ProfilePool :
          filterClassesForUser(Flipped(sessions), pCourses, profile)
          = Flipped(filterClassesForUser(sessions, pCourses, profile))

\* ------------------------------------------------------------------- C14

\* The functions give on the whole input what their callbacks gave row by row.
DataSoFar ==
    /\ step \in {"catalog", "filtered"} => catCourses = parseCourses(catalog)
    /\ step = "stats" => stats = calculateStats(counted, marks)

\* C14 (as claimed): every course of parseCourses' output has the type Core,
\* Elective or Unknown.
C14_TypeIsOfTheEnum ==
    \A c \in OwnKeys(catCourses) :
       catCourses[c].type \in {<<"Core">>, <<"Elective">>, <<"Unknown">>}

\* ------------------------------------------------------------------- C15

\* The trimmed non-empty codes of the data rows of the catalog.
CodesOfRows == {Trim(Col(catalog[k], 3)) : k \in 2..Len(catalog)} \ {<<>>}

\* C15 (as claimed): the keys of parseCourses' output are exactly the trimmed
\* non-empty column-3 values of rows 1..n, and the record of a key comes from
\* the last row with that code.
C15_KeysAreTheCodesOfTheRows ==
    step = "catalog" =>
       /\ OwnKeys(catCourses) = CodesOfRows
       /\ \A c \in OwnKeys(catCourses) :
             LET last == CHOOSE k \in 2..Len(catalog) :
                            /\ Trim(Col(catalog[k], 3)) = c
                            /\ \A k2 \in (k + 1)..Len(catalog) :
                                  Trim(Col(catalog[k2], 3)) # c
             IN catCourses[c].name = Trim(Col(catalog[last], 1))

\* ------------------------------------------------------------------- C16

\* The target email as it is compared: trimmed and lower-cased.
TargetKey == ToLowerCase(Trim(targetEmail))

\* The roster rows whose column 3 is the target email.
MatchingRows ==
    {k \in 1..Len(rosterRows) :
        /\ Len(rosterRows[k]) >= 4
        /\ ToLowerCase(Trim(rosterRows[k][4])) = TargetKey}

\* Some elective roster holds the target email.
InSomeElectiveRoster ==
    \E n \in 1..Len(electiveRosters) :
       \E k \in 1..Len(electiveRosters[n].rows) :
          LET row == electiveRosters[n].rows[k]
          IN Len(row) >= 4 /\ ToLowerCase(Trim(row[4])) = TargetKey

\* C16: the section of the profile is column 9 (trimmed, upper-cased) of the
\* first roster row with the target email when that is A or B, and A when no
\* row matches or the value is anything else; an email in no roster gives
\* section A and no elective.
C16_SectionFromFirstMatchingRow ==
    step = "profile" =>
       /\ IF MatchingRows = {} THEN builtProfile.section = "A"
          ELSE LET first == CHOOSE k \in MatchingRows : \A k2 \in MatchingRows : k <= k2
                   secVal == ToUpperCase(Trim(Col(rosterRows[first], 9)))
               IN IF secVal = <<"B">> THEN builtProfile.section = "B"
                  ELSE builtProfile.section = "A"
       /\ (MatchingRows = {} /\ ~InSomeElectiveRoster)
             => builtProfile.section = "A" /\ builtProfile.electives = <<>>

\* Two rows carry the email, written differently from the target; the first
\* says b, the second C, and the profile is of section B.
C16_Witness ==
    /\ step = "profile"
    /\ targetEmail = <<" ", "Ann@X.in", " ">>
    /\ Len(rosterRows) = 2
    /\ MatchingRows = {1, 2}
    /\ Col(rosterRows[1], 9) = <<" ", "b", " ">>
    /\ Col(rosterRows[2], 9) = <<"C">>
    /\ builtProfile.section = "B"

\* ------------------------------------------------------------------- C17

\* C17: an elective code is in profile.electives exactly when the target email
\* is in column 3 of a row of that elective's roster, and no code is there twice.
C17_ElectiveIffOnRoster ==
    step = "profile" =>
       /\ \A n \in 1..Len(electiveRosters) :
             (\E i \in 1..Len(builtProfile.electives) :
                 builtProfile.electives[i] = electiveRosters[n].code)
             <=> (\E k \in 1..Len(electiveRosters[n].rows) :
                    LET row == electiveRosters[n].rows[k]
                    IN Len(row) >= 4 /\ ToLowerCase(Trim(row[4])) = TargetKey)
       /\ \A i, j \in 1..Len(builtProfile.electives) :
             i # j => builtProfile.electives[i] # builtProfile.electives[j]
       /\ \A i \in 1..Len(builtProfile.electives) :
             \E n \in 1..Len(electiveRosters) :
                electiveRosters[n].code = builtProfile.electives[i]

\* Two electives with rosters; the email is on the second roster only.
C17_Witness ==
    /\ step = "profile"
    /\ Len(electiveRosters) = 2
    /\ electiveRosters[1].rows # <<>>
    /\ builtProfile.electives = <<electiveRosters[2].code>>

\* ------------------------------------------------------------------- C18

\* The course of a session has the given type in the parsed catalog.
HasType(session, type) ==
    /\ session.courseCode \in DOMAIN catCourses
    /\ catCourses[session.courseCode].type = type

\* C18: a session of an Elective course is in the output of
\* filterClassesForUser exactly when its code is among the electives of the
\* profile, whatever the two sections are.
C18_ElectiveIffEnrolled ==
    step = "filtered" =>
       \A i \in 1..Len(schedule) :
          HasType(schedule[i], <<"Elective">>)
          => (schedule[i] \in Range(filtered)
                <=> schedule[i].courseCode \in Range(viewer.electives))

\* A session of an elective for section B is shown to an enrolled user of
\* section A.
C18_Witness ==
    /\ step = "filtered"
    /\ viewer = [section |-> "A", electives |-> <<<<"GT">>>>]
    /\ \E i \in 1..Len(schedule) :
          /\ HasType(schedule[i], <<"Elective">>)
          /\ schedule[i].section = "B"
          /\ schedule[i] \in Range(filtered)

\* ------------------------------------------------------------------- C19

\* C19: a session of a course that is not an Elective is left out exactly when
\* the course is Core and the session has a section other than the user's; the
\* output is the input without the sessions left out, in the input order.
C19_CoreBySectionOthersKept ==
    step = "filtered" =>
       /\ \A i \in 1..Len(schedule) :
             ~HasType(schedule[i], <<"Elective">>)
             => (schedule[i] \notin Range(filtered)
                   <=> /\ HasType(schedule[i], <<"Core">>)
                       /\ schedule[i].section # "null"
                       /\ schedule[i].section # viewer.section)
       /\ filtered = SelectSeq(schedule, LAMBDA s : s \in Range(filtered))

\* A Core session of section B is hidden from a user of section A, and a
\* session of a course missing from a populated catalog is shown.
C19_Witness ==
    /\ step = "filtered"
    /\ viewer.section = "A"
    /\ Len(schedule) = 2
    /\ HasType(schedule[1], <<"Core">>) /\ schedule[1].section = "B"
    /\ schedule[2].courseCode \notin DOMAIN catCourses
    /\ filtered = <<schedule[2]>>

\* ------------------------------------------------------------------- C20

\* The sessions of a course among those gone through.
SessionsOfCode(code) == {i \in 1..Len(counted) : counted[i].courseCode = code}

\* C20: in the output of calculateStats every course has
\* allowedLeaves = floor(total * 0.20), i.e. the whole number of fifths of
\* total, where total is the number of its sessions, and
\* attended + leaves <= total.
C20_AllowedLeavesAndTotals ==
    step = "stats" =>
       \A code \in DOMAIN stats :
          /\ stats[code].total = Cardinality(SessionsOfCode(code))
          /\ stats[code].allowedLeaves * 5 <= stats[code].total
          /\ stats[code].total < (stats[code].allowedLeaves + 1) * 5
          /\ stats[code].attended + stats[code].leaves <= stats[code].total

\* A course of five sessions, some of them marked, with one leave allowed.
C20_Witness ==
    /\ step = "stats"
    /\ \E code \in DOMAIN stats :
          /\ stats[code].total = 5
          /\ stats[code].allowedLeaves = 1
          /\ stats[code].attended + stats[code].leaves >= 1
          /\ stats[code].attended + stats[code].leaves < 5

\* ------------------------------------------------------------------- C21

\* The mark of the i-th session gone through: Present, Absent or none.
MarkOf(i) ==
    LET key == counted[i].courseCode \o <<"-">> \o counted[i].sessionNumber
    IN IF key \in DOMAIN marks THEN marks[key] ELSE "none"

\* C21 (as claimed): the output of calculateStats has an entry for exactly the
\* codes with a session in the list; total is the number of those sessions,
\* cancelled or not, attended the number of them marked Present, leaves the
\* number marked Absent.
C21_TotalsCountEverySession ==
    step = "stats" =>
       /\ DOMAIN stats = {counted[i].courseCode : i \in 1..Len(counted)}
       /\ \A code \in DOMAIN stats :
             /\ stats[code].total = Cardinality(SessionsOfCode(code))
             /\ stats[code].attended
                  = Cardinality({i \in SessionsOfCode(code) : MarkOf(i) = "Present"})
             /\ stats[code].leaves
                  = Cardinality({i \in SessionsOfCode(code) : MarkOf(i) = "Absent"})

\* ------------------------------------------------------------------- C22

\* C22 (as claimed): a cell of a dated row whose first token is a key of the
\* course mapping and none of whose tokens is lunch or break gives a session,
\* even when the letters of lunch or break stand inside a longer token.
C22_PauseWordsAreWholeTokens ==
    \A k \in 1..Len(rows) : \A n \in 1..Len(timeSlots) :
       LET cell == CellAt(rows[k], n + 2) IN
       (/\ HasDateContext(k)
        /\ Trim(CellText(cell)) # <<>>
        /\ TokensOf(cell)[1] \in DOMAIN pCourses
        /\ ~HasPauseToken(cell))
       => SessionsFrom(k, n) # {}

\* ------------------------------------------------------------------- C23

\* Discovery has run.
Discovered == step \in {"discovered", "rosters"}

\* The sheets whose lower-cased title holds every one of the words.
SheetsWith(words) ==
    {i \in 1..Len(sheetList) :
        \A w \in words : Contains(ToLowerCase(sheetList[i]), w)}

\* The sheets each strategy finds for a course, in the order of the strategies.
Strategies(course) ==
    LET prefix == ToLowerCase(Split(course.code, "-")[1]) IN
    <<SheetsWith({ToLowerCase(course.name)}),
      SheetsWith({ToLowerCase(course.code), <<"list">>}),
      IF LongerThanOne(prefix) THEN SheetsWith({prefix, <<"list">>}) ELSE {}>>

\* The entries of electiveCodeToSheetTitle for a code.
EntriesOf(code) ==
    {n \in 1..Len(electiveCodeToSheetTitle) : electiveCodeToSheetTitle[n].code = code}

\* C23: only a course whose type holds "elective" or "compl." in any case has
\* an entry; its sheet is the first sheet, in workbook order, of the first
\* strategy that finds any; a course of such a type that no strategy finds a
\* sheet for has no entry and a log line.
C23_FirstStrategyFirstSheet ==
    Discovered =>
       \A code \in OwnKeys(fetchCourses) :
          LET course == fetchCourses[code]
              elective == \/ Contains(ToLowerCase(course.type), <<"elective">>)
                          \/ Contains(ToLowerCase(course.type), <<"compl.">>)
              tried == {s \in 1..3 : Strategies(course)[s] # {}}
          IN /\ ~elective => EntriesOf(code) = {}
             /\ (elective /\ tried = {})
                  => /\ EntriesOf(code) = {}
                     /\ \E n \in 1..Len(debugLog) :
                           debugLog[n] = [line |-> "none", code |-> code]
             /\ (elective /\ tried # {})
                  => LET s == CHOOSE s \in tried : \A s2 \in tried : s <= s2
                         sheets == Strategies(course)[s]
                         first == CHOOSE i \in sheets : \A i2 \in sheets : i <= i2
                     IN /\ Cardinality(EntriesOf(code)) = 1
                        /\ \A n \in EntriesOf(code) :
                              electiveCodeToSheetTitle[n].title = sheetList[first]

\* A list sheet of the code stands before the sheet with the course name, and
\* the sheet with the name is the one matched.
C23_Witness ==
    /\ Discovered
    /\ <<"GT">> \in DOMAIN fetchCourses
    /\ Strategies(fetchCourses[<<"GT">>])[1] = {4}
    /\ Strategies(fetchCourses[<<"GT">>])[2] = {3}
    /\ \E n \in EntriesOf(<<"GT">>) :
          electiveCodeToSheetTitle[n].title = <<"GAME THEORY">>

\* ------------------------------------------------------------------- C29

\* C29 (as claimed): after a batch read that returns a value range per
\* requested range, every elective code with a discovered sheet has an entry in
\* electiveRowsMap, and the entry holds the rows of that sheet.
C29_EveryDiscoveredCodeHasItsRows ==
    step = "rosters" =>
       \A n \in 1..Len(electiveCodeToSheetTitle) :
          LET entry == electiveCodeToSheetTitle[n] IN
          /\ entry.code \in DOMAIN electiveRows
          /\ electiveRows[entry.code] = SheetRows(entry.title)

\* ------------------------------------------------------------------- C30

\* C30 (as claimed): in a workbook of two sheets or more the catalog sheet and
\* the timetable sheet are different sheets.
C30_CatalogAndTimetableDiffer ==
    (step \in {"meta", "discovered", "rosters"} /\ Len(sheetList) >= 2)
    => courseSheet # timeTableSheet

\* ------------------------------------------------------------------- C28

\* The session's course is in the parsed catalog with a type that discovery
\* takes for an elective: it holds "elective" or "compl." in any case.
DiscoveredAsElective(session) ==
    /\ session.courseCode \in DOMAIN catCourses
    /\ LET type == ToLowerCase(catCourses[session.courseCode].type)
       IN Contains(type, <<"elective">>) \/ Contains(type, <<"compl.">>)

\* C28 (as claimed): a session of a course that discovery takes for an
\* elective is in the output of filterClassesForUser only for a profile whose
\* electives hold its code.
C28_ElectiveForDiscoveryIsElectiveForFilter ==
    step = "filtered" =>
       \A i \in 1..Len(schedule) :
          (DiscoveredAsElective(schedule[i]) /\ schedule[i] \in Range(filtered))
          => schedule[i].courseCode \in Range(viewer.electives)

\* ------------------------------------------------------------------- C24

\* C24 (as claimed): the calendar calls of one run of syncToCalendar hold no
\* two inserts of one signature, and no update of an event the run has deleted.
C24_OneCallPerSignature ==
    \A a, b \in 1..Len(calls) :
       (a < b /\ calls[a].api = "calendar" /\ calls[b].api = "calendar")
       => /\ ~(/\ calls[a].op = "insert" /\ calls[b].op = "insert"
               /\ calls[a].sig = calls[b].sig)
          /\ ~(/\ calls[a].op = "delete" /\ calls[a].ok
               /\ calls[b].op = "update" /\ calls[b].id = calls[a].id)

\* ------------------------------------------------------------------- C25

\* C25 (as claimed): once a sync has listed the calendar, every tagged event
\* that was there for a session of today or later has its signature in
\* existingMap, also when the session of today is over by now.
C25_ListingCoversSessionWindow ==
    (req.kind = "sync" /\ pc = "loop")
    => \A e \in remoteAtStart :
          e.body.start.day >= Now.day => e.body.signature \in DOMAIN existingMap

\* ------------------------------------------------------------------- C26

\* C26 (as claimed): when two sync requests of one user, run at once, are both
\* over, the calendar holds at most one tagged event per signature.
C26_OneEventPerSignatureAfterRace ==
    (\A p \in Requests : racePc[p] = "done")
    => \A e1, e2 \in raceRemote :
          e1.body.signature = e2.body.signature => e1 = e2

\* ------------------------------------------------------------------- C27

\* C27 (as claimed): for one workbook and one email the sync route filters with
\* the profile of the schedule route: the same section and the same electives.
C27_SyncUsesTheProfileShown ==
    step = "profile" =>
       /\ SyncRouteProfile(targetEmail, rosterRows).section = builtProfile.section
       /\ SyncRouteProfile(targetEmail, rosterRows).electives = builtProfile.electives

====
